---- MODULE Spec2Model ----
(***************************************************************************)
(* Backend of the dealership application (Express + MySQL): the            *)
(* appointment ("citas") and account (register, login, admins) handlers    *)
(* of the API server; and the booking form of its Angular frontend,        *)
(* CitaComponent, with the requests it has under way.                      *)
(*                                                                         *)
(* Every handler is an async function: the code between two `await`s runs  *)
(* without interruption, and other requests may run at every `await`.      *)
(* One action of the model is one such uninterrupted stretch: the          *)
(* synchronous validation up to `await connectDB()`, then one SQL          *)
(* statement together with the code that follows it up to the next         *)
(* statement (or up to the response and the `finally` that releases the    *)
(* connection).                                                            *)
(*                                                                         *)
(* Dates are day numbers counted from 1970-01-01 (19737 is Monday          *)
(* 2024-01-15), times of day are minutes after midnight (540 is 09:00).    *)
(* A body field that was not sent is "" (or -1 for a date or a time), which *)
(* is what JavaScript's `!field` tests.                                    *)
(***************************************************************************)
EXTENDS Integers, Sequences, FiniteSets, TLC

VARIABLES usuarios,   \* table usuarios: set of rows
          vehiculos,  \* table vehiculos: set of rows
          citas,      \* table citas: sequence of rows, the id is the position
          pool,       \* connections of the pool that are checked out
          pc,         \* per request slot: where its handler stands
          req,        \* per request slot: the request being handled
          loc,        \* per request slot: the handler's local variables
          res,        \* per request slot: the response sent
          db,         \* whether the MySQL server answers
          component,  \* the fields of the browser's CitaComponent
          localStorage, \* the browser's localStorage: its currentUser
          http,       \* the HTTP requests CitaComponent has sent, in order
          reloj       \* the browser's clock and time zone

servidor == <<usuarios, vehiculos, citas, pool, pc, req, loc, res, db>>
navegador == <<component, localStorage, http, reloj>>
vars == <<usuarios, vehiculos, citas, pool, pc, req, loc, res, db,
          component, localStorage, http, reloj>>

(***************************************************************************)
(* Bounds of the model.                                                    *)
(***************************************************************************)
NReq == 2       \* request slots (requests in flight at once)
MaxCitas == 2   \* rows the citas table may hold
NumDays == 2    \* calendar days requests may name, from Friday 2024-01-19
MaxPeticiones == 2  \* requests CitaComponent sends once it is initialised

connectionLimit == 10

Procs == 1..NReq

NULL == "NULL"

\* Friday 2024-01-19, Saturday 2024-01-20, ...
Dias == {19741 + k : k \in 0..(NumDays - 1)}
\* Monday 2024-01-15 .. Sunday 2024-01-21
DiasSemana == 19737..19743

slots == <<540, 600, 660, 720, 900, 960, 1020>>

NoReq == [kind |-> "none"]
NoCita == [dni |-> "", idVehiculo |-> "", fecha_hora |-> <<0, 0>>, motivo |-> "",
           estado |-> "", admin_dni |-> "", admin_message |-> ""]
NoUser == [dni |-> ""]
NoLoc == [i |-> 0, estado |-> "", antes |-> NoCita, finalRole |-> "", user |-> NoUser]
\* status 0: no response was sent; success is the JSON body's field ("" when
\* the body has none); conn tells whether the handler took a connection.
NoRes == [status |-> 0, message |-> "", success |-> "", slots |-> <<>>, cita |-> NoCita,
          user |-> NoUser, conn |-> FALSE]

(***************************************************************************)
(* The browser: CitaComponent, the booking form of the Angular frontend.   *)
(* Its methods run to completion; the callbacks of its HTTP requests run   *)
(* when the responses arrive, in any order.  An empty date, time or        *)
(* selectedSlot ('' or null) is -1, a selectedVehicleId of null is "".     *)
(* The server is seen from here through its responses alone: HttpClient    *)
(* hands a 2xx response to `next` and every other outcome (4xx, 5xx, no    *)
(* connection: status 0) to `error`.  The clock stands at 09:30.           *)
(***************************************************************************)
\* new Date(): the local day the browser's clock shows (Thursday 2024-01-18)
Hoy == 19740

\* The dates the form's date input is given.
FechasForm == {Hoy, Hoy + 1}

NoUsuario == [dni |-> "", rol |-> ""]
UsuarioCliente == [dni |-> "87654321", rol |-> "cliente"]
UsuarioAdmin == [dni |-> "12345678", rol |-> "admin"]

NoRespuesta == [status |-> 0, success |-> FALSE, slots |-> << >>, message |-> ""]

\* The slot list of a 200 answer of GET /api/citas/availability, the slots
\* whose times are in `ocupadas` being taken.
ListaSlots(ocupadas) == [k \in 1..Len(slots) |-> [time |-> slots[k],
                                                  available |-> slots[k] \notin ocupadas]]

\* What may come back for an availability request: 200 with a slot list, or 500.
RespuestasAvailability ==
    {[status |-> 200, success |-> TRUE, slots |-> ListaSlots(o), message |-> ""] :
        o \in {{}, {600}}}
    \cup {[status |-> 500, success |-> FALSE, slots |-> << >>, message |-> "Error del servidor"]}

\* What may come back for POST /api/citas: 201, 409, or no connection.
RespuestasPost ==
    {[status |-> 201, success |-> TRUE, slots |-> << >>, message |-> "Cita agendada"],
     [status |-> 409, success |-> FALSE, slots |-> << >>, message |-> "ocupado"],
     [status |-> 0, success |-> FALSE, slots |-> << >>, message |-> ""]}

\* What may come back for GET /api/vehiculos.
RespuestasVehiculos ==
    {[status |-> 200, success |-> TRUE, slots |-> << >>, message |-> ""],
     [status |-> 500, success |-> FALSE, slots |-> << >>, message |-> "Error del servidor"]}

Peticion(kind, date, hora, idVehiculo, user) ==
    [kind |-> kind, date |-> date, hora |-> hora, idVehiculo |-> idVehiculo, user |-> user,
     estado |-> "enviada", res |-> NoRespuesta]

\* The fields as declared, then ngOnInit: the route's queryParams have given
\* selectedVehicleId the id of the URL, if it has one; fetchVehicles has set
\* loading and its request is under way.
InitNavegador(tzs, ids) ==
    /\ component \in [selectedVehicleId : ids, fecha : {-1}, hora : {-1},
                      motivo : {"Consulta por vehiculo"}, loading : {TRUE}, message : {""},
                      messageType : {"success"}, slots : {<< >>}, selectedSlot : {-1}]
    /\ localStorage = [currentUser |-> NoUsuario]
    /\ http = << Peticion("vehiculos", -1, -1, "", NoUsuario) >>
    /\ reloj \in [ahora : {570}, tz : tzs]

\* The texts shown are not told apart: message is "" or "texto".
showError(c) == [c EXCEPT !.message = "texto", !.messageType = "error"]
showSuccess(c) == [c EXCEPT !.message = "texto", !.messageType = "success"]

\* new Date(date) is midnight UTC of the date; setHours(0, 0, 0, 0) then moves
\* it to the local midnight of the local day that instant falls on, which is
\* the day before in a time zone west of UTC (tz = -1) and the date itself
\* otherwise (tz = 0).
DiaLocal(date) == date + reloj.tz

\* Requests not answered yet.
Enviadas(kind) == {i \in 1..Len(http) : http[i].kind = kind /\ http[i].estado = "enviada"}

\* Room for n more requests, one POST being kept for every re-check under way.
Cabe(n) == Len(http) + Cardinality(Enviadas("recheck")) + n <= MaxPeticiones + 1

\* The request as the list keeps it once its callback has run: the browser
\* holds on to nothing of it, the list keeps its kind and, until the next
\* response arrives, what was asked and answered.
Olvidar(h) == [j \in 1..Len(h) |->
                 IF h[j].estado = "entregada"
                 THEN [Peticion(h[j].kind, -1, -1, "", NoUsuario) EXCEPT !.estado = "entregada"]
                 ELSE h[j]]

Entregada(i, r) == [Olvidar(http) EXCEPT ![i] = [@ EXCEPT !.estado = "entregada", !.res = r]]

Entregar(i, r) == http' = Entregada(i, r)

\* The callbacks of fetchVehicles.
VehiculosLlega(i, r) ==
    /\ i \in Enviadas("vehiculos")
    /\ component' = IF r.status = 200
                    THEN [component EXCEPT !.loading = FALSE]
                    ELSE showError([component EXCEPT !.loading = FALSE])
    /\ Entregar(i, r)
    /\ UNCHANGED <<servidor, localStorage, reloj>>

\* [(ngModel)] of the date input.
EligeFecha(d) ==
    /\ component' = [component EXCEPT !.fecha = d]
    /\ component' # component
    /\ UNCHANGED <<servidor, localStorage, http, reloj>>

\* localStorage.setItem('currentUser', ...) after a login, removeItem at logout
IniciaSesion(u) ==
    /\ localStorage.currentUser = NoUsuario
    /\ localStorage' = [localStorage EXCEPT !.currentUser = u]
    /\ UNCHANGED <<servidor, component, http, reloj>>

CierraSesion ==
    /\ localStorage.currentUser # NoUsuario
    /\ localStorage' = [localStorage EXCEPT !.currentUser = NoUsuario]
    /\ UNCHANGED <<servidor, component, http, reloj>>

fetchAvailability(date) ==
    /\ date # -1
    /\ IF DiaLocal(date) < Hoy
       THEN /\ component' = [showError(component)
                                EXCEPT !.fecha = -1, !.slots = << >>, !.selectedSlot = -1]
            /\ component' # component
            /\ UNCHANGED http
       ELSE /\ Cabe(1)
            /\ http' = Append(http, Peticion("availability", date, -1,
                                             component.selectedVehicleId, NoUsuario))
            /\ UNCHANGED component
    /\ UNCHANGED <<servidor, localStorage, reloj>>

\* this.slots.filter(slot => slotTime > now), applied when the date is today
Futuros(lista) == SelectSeq(lista, LAMBDA s : s.time > reloj.ahora)

Disponible(lista, time) == \E k \in 1..Len(lista) : lista[k].time = time /\ lista[k].available

\* Mutant: a response is dropped when a later request has been sent since.
AvailabilityLlegaSoloUltima(i, r) ==
    /\ i \in Enviadas("availability")
    /\ r \in RespuestasAvailability
    /\ IF r.status = 200 /\ ~\E j \in (i + 1)..Len(http) : http[j].kind = "availability"
       THEN LET lista == IF DiaLocal(http[i].date) = Hoy THEN Futuros(r.slots) ELSE r.slots
            IN component' = [component EXCEPT
                                !.slots = lista,
                                !.selectedSlot = IF @ # -1 /\ ~Disponible(lista, @)
                                                 THEN -1 ELSE @]
       ELSE IF r.status = 200 THEN UNCHANGED component
       ELSE component' = showError(component)
    /\ Entregar(i, r)
    /\ UNCHANGED <<servidor, localStorage, reloj>>

\* The callbacks of fetchAvailability's request.
AvailabilityLlega(i, r) ==
    /\ i \in Enviadas("availability")
    /\ r \in RespuestasAvailability
    /\ IF r.status = 200
       THEN LET lista == IF DiaLocal(http[i].date) = Hoy THEN Futuros(r.slots) ELSE r.slots
            IN component' = [component EXCEPT
                                !.slots = lista,
                                !.selectedSlot = IF @ # -1 /\ ~Disponible(lista, @)
                                                 THEN -1 ELSE @]
       ELSE component' = showError(component)
    /\ Entregar(i, r)
    /\ UNCHANGED <<servidor, localStorage, reloj>>

selectSlot(time, available) ==
    /\ available
    /\ IF component.fecha # -1 /\ DiaLocal(component.fecha) = Hoy /\ time <= reloj.ahora
       THEN component' = showError(component)
       ELSE component' = [component EXCEPT !.selectedSlot = time, !.hora = time]
    /\ component' # component
    /\ UNCHANGED <<servidor, localStorage, http, reloj>>

submit ==
    /\ LET c == [component EXCEPT !.message = ""]
           user == localStorage.currentUser
       IN IF user = NoUsuario
          THEN /\ component' = showError(c)
               /\ UNCHANGED http
          ELSE IF user.rol # "cliente"
          THEN /\ component' = showError(c)
               /\ UNCHANGED http
          ELSE IF c.fecha = -1 \/ c.selectedSlot = -1
          THEN /\ component' = showError(c)
               /\ UNCHANGED http
          ELSE /\ Cabe(2)
               /\ component' = [c EXCEPT !.loading = TRUE]
               /\ http' = Append(http, Peticion("recheck", c.fecha, -1,
                                                c.selectedVehicleId, user))
    /\ UNCHANGED <<servidor, localStorage, reloj>>

\* Mutant: the POST is sent whatever the re-check says of the selected slot.
RecheckLlegaSinComprobar(i, r) ==
    /\ i \in Enviadas("recheck")
    /\ r \in RespuestasAvailability
    /\ IF r.status = 200
       THEN /\ component' = [component EXCEPT !.loading = TRUE]
            /\ http' = Append(Entregada(i, r),
                              Peticion("post", component.fecha, component.selectedSlot,
                                       component.selectedVehicleId, http[i].user))
       ELSE /\ component' = showError([component EXCEPT !.loading = FALSE])
            /\ Entregar(i, r)
    /\ UNCHANGED <<servidor, localStorage, reloj>>

\* The callbacks of submit's availability request; `next` sends the POST.
RecheckLlega(i, r) ==
    /\ i \in Enviadas("recheck")
    /\ r \in RespuestasAvailability
    /\ IF r.status = 200
       THEN IF ~Disponible(r.slots, component.selectedSlot)
            THEN /\ component' =
                       showError([component EXCEPT !.loading = FALSE])
                 /\ Entregar(i, r)
            ELSE /\ component' = [component EXCEPT !.loading = TRUE]
                 /\ http' = Append(Entregada(i, r),
                                   Peticion("post", component.fecha, component.selectedSlot,
                                            component.selectedVehicleId, http[i].user))
       ELSE /\ component' = showError([component EXCEPT !.loading = FALSE])
            /\ Entregar(i, r)
    /\ UNCHANGED <<servidor, localStorage, reloj>>

\* The callbacks of the POST.
PostLlega(i, r) ==
    /\ i \in Enviadas("post")
    /\ r \in RespuestasPost
    /\ IF r.status = 201
       THEN component' = [showSuccess(component)
                             EXCEPT !.loading = FALSE, !.fecha = -1, !.selectedSlot = -1,
                                    !.hora = -1, !.slots = << >>]
       ELSE component' = showError([component EXCEPT !.loading = FALSE])
    /\ Entregar(i, r)
    /\ UNCHANGED <<servidor, localStorage, reloj>>

(***************************************************************************)
(* The state once startServer has run: createTables seeds one admin and    *)
(* one client; the vehicle table holds an active and an inactive vehicle.  *)
(***************************************************************************)
\* bcrypt.hash(password, 10): a salted digest, never the password itself
hash(password) == <<"$2a$10$", password>>

\* bcrypt.compare(password, hashed)
compare(password, hashed) == hashed = hash(password)

SeedUsuarios ==
    { [dni |-> "12345678", nombre |-> "Administrador", apellido |-> "Sistema",
       telefono |-> "3411234567", password |-> hash("admin123"), rol |-> "admin",
       activo |-> TRUE],
      [dni |-> "87654321", nombre |-> "Juan", apellido |-> "Perez",
       telefono |-> "3417654321", password |-> hash("cliente123"), rol |-> "cliente",
       activo |-> TRUE] }

SeedVehiculos ==
    { [idVehiculo |-> "veh_1", activo |-> TRUE],
      [idVehiculo |-> "veh_2", activo |-> FALSE],
      [idVehiculo |-> "veh_3", activo |-> TRUE] }

Init ==
    /\ usuarios = SeedUsuarios
    /\ vehiculos = SeedVehiculos
    /\ citas = <<>>
    /\ pool = 0
    /\ pc = [p \in Procs |-> "idle"]
    /\ req = [p \in Procs |-> NoReq]
    /\ loc = [p \in Procs |-> NoLoc]
    /\ res = [p \in Procs |-> NoRes]
    /\ db = TRUE
    /\ InitNavegador({0}, {""})

(***************************************************************************)
(* Helpers shared by the handlers.                                         *)
(***************************************************************************)
\* A slot takes a new request when it is free, its last response was sent, or
\* its last handler ended in a rejected promise.
Libre(p) == pc[p] \in {"idle", "done", "rejected"}

\* The success field of the JSON body: every response of the handlers carries
\* success: true with status 200 or 201 and success: false with any other.
Success(s) == IF s \in {200, 201} THEN "true" ELSE "false"

\* res.status(s).json({success, message}) followed by the end of the handler.
Responder(p, s, m, soltar) ==
    /\ pc' = [pc EXCEPT ![p] = "done"]
    /\ res' = [res EXCEPT ![p] = [@ EXCEPT !.status = s, !.message = m,
                                           !.success = Success(s)]]
    /\ pool' = IF soltar THEN pool - 1 ELSE pool

\* const connection = await connectDB(), which every handler calls before its
\* try block.  When pool.getConnection() rejects, connectDB rethrows and the
\* handler's promise rejects outside any try: Express 4 leaves the request
\* without response, Express 5 hands the error to its default error handler,
\* which answers 500 with a body that is not the handlers' JSON.
connectDB(p, k, r, l) ==
    \/ /\ db
       /\ pool < connectionLimit
       /\ pool' = pool + 1
       /\ pc' = [pc EXCEPT ![p] = k]
       /\ req' = [req EXCEPT ![p] = r]
       /\ loc' = [loc EXCEPT ![p] = l]
       /\ res' = [res EXCEPT ![p] = [NoRes EXCEPT !.conn = TRUE]]
    \/ /\ ~db
       /\ pool' = pool
       /\ req' = [req EXCEPT ![p] = r]
       /\ loc' = [loc EXCEPT ![p] = l]
       /\ \/ /\ pc' = [pc EXCEPT ![p] = "rejected"]
             /\ res' = [res EXCEPT ![p] = NoRes]
          \/ /\ pc' = [pc EXCEPT ![p] = "done"]
             /\ res' = [res EXCEPT ![p] = [NoRes EXCEPT !.status = 500,
                                                        !.message = "Internal Server Error"]]

\* A request answered by the synchronous validation, before any connection.
Rechazar(p, r, s, m) ==
    /\ pc' = [pc EXCEPT ![p] = "done"]
    /\ req' = [req EXCEPT ![p] = r]
    /\ loc' = [loc EXCEPT ![p] = NoLoc]
    /\ res' = [res EXCEPT ![p] = [NoRes EXCEPT !.status = s, !.message = m,
                                               !.success = Success(s)]]
    /\ UNCHANGED <<navegador, usuarios, vehiculos, db, citas, pool>>

(***************************************************************************)
(* POST /api/citas                                                         *)
(***************************************************************************)
\* new Date(...).getDay(): 0 is Sunday .. 6 is Saturday (1970-01-01: Thursday)
getDay(fecha) == (fecha + 4) % 7
getHours(hora) == hora \div 60
getMinutes(hora) == hora % 60

\* `${fecha} ${hora}:00`, the value compared with and stored in fecha_hora
\* Mutant: the date-time is cut down to the full hour.
fechaHoraStrEnPunto(fecha, hora) == <<fecha, (hora \div 60) * 60>>

fechaHoraStr(fecha, hora) == <<fecha, hora>>

\* isNaN(fechaHora.getTime())
FechaInvalida(fecha, hora) == fecha < 0 \/ hora < 0 \/ hora > 1439

\* Mutant: the morning window closed with `hour <= 13`.
allowedHasta13(hora) ==
    LET hour == getHours(hora)
        minute == getMinutes(hora)
    IN \/ (hour >= 9 /\ hour <= 13)
       \/ (hour >= 15 /\ (hour < 18 \/ (hour = 18 /\ minute = 0)))

allowed(hora) ==
    LET hour == getHours(hora)
        minute == getMinutes(hora)
    IN \/ (hour >= 9 /\ (hour < 13 \/ (hour = 13 /\ minute = 0)))
       \/ (hour >= 15 /\ (hour < 18 \/ (hour = 18 /\ minute = 0)))

PostCitaBody(dnis, vehs, fechas, horas, motivos) ==
    [kind : {"post"}, dni : dnis, idVehiculo : vehs, fecha : fechas, hora : horas,
     motivo : motivos]

\* Mutant: the connection is taken before the validations, whose early
\* returns are outside the try block and so never release it.
PostCitaStartConexionPrimero(p, body) ==
    /\ Libre(p)
    /\ pool < connectionLimit
    /\ pool' = pool + 1
    /\ req' = [req EXCEPT ![p] = body]
    /\ loc' = [loc EXCEPT ![p] = NoLoc]
    /\ UNCHANGED <<navegador, usuarios, vehiculos, db, citas>>
    /\ LET fin(m) == /\ pc' = [pc EXCEPT ![p] = "done"]
                     /\ res' = [res EXCEPT ![p] = [NoRes EXCEPT !.status = 400, !.message = m,
                                                                !.success = "false",
                                                                !.conn = TRUE]]
       IN IF body.dni = "" \/ body.fecha = -1 \/ body.hora = -1 \/ body.motivo = ""
          THEN fin("campos")
          ELSE IF FechaInvalida(body.fecha, body.hora)
          THEN fin("fecha")
          ELSE IF getDay(body.fecha) = 0 \/ getDay(body.fecha) = 6
          THEN fin("dia")
          ELSE IF ~allowed(body.hora)
          THEN fin("horario")
          ELSE /\ pc' = [pc EXCEPT ![p] = "users"]
               /\ res' = [res EXCEPT ![p] = [NoRes EXCEPT !.conn = TRUE]]

\* The handler up to `await connectDB()`: the four validations.
PostCitaStart(p, body) ==
    /\ Libre(p)
    /\ IF body.dni = "" \/ body.fecha = -1 \/ body.hora = -1 \/ body.motivo = ""
       THEN Rechazar(p, body, 400, "campos")
       ELSE IF FechaInvalida(body.fecha, body.hora)
       THEN Rechazar(p, body, 400, "fecha")
       ELSE IF getDay(body.fecha) = 0 \/ getDay(body.fecha) = 6
       THEN Rechazar(p, body, 400, "dia")
       ELSE IF ~allowed(body.hora)
       THEN Rechazar(p, body, 400, "horario")
       ELSE /\ connectDB(p, "users", body, NoLoc)
            /\ UNCHANGED <<navegador, usuarios, vehiculos, db, citas>>

\* SELECT dni FROM usuarios WHERE dni = ?
PostCitaUsers(p) ==
    /\ pc[p] = "users" /\ req[p].kind = "post" /\ db
    /\ IF {u \in usuarios : u.dni = req[p].dni} = {}
       THEN Responder(p, 400, "usuario", TRUE)
       ELSE /\ pc' = [pc EXCEPT ![p] = IF req[p].idVehiculo # "" THEN "vehiculo"
                                                                  ELSE "existing"]
            /\ UNCHANGED <<res, pool>>
    /\ UNCHANGED <<navegador, usuarios, vehiculos, db, citas, req, loc>>

\* Mutant: the vehicle must exist, its activo flag is not looked at.
PostCitaVehiculoSoloExiste(p) ==
    /\ pc[p] = "vehiculo" /\ req[p].kind = "post" /\ db
    /\ IF {v \in vehiculos : v.idVehiculo = req[p].idVehiculo} = {}
       THEN Responder(p, 400, "vehiculo", TRUE)
       ELSE /\ pc' = [pc EXCEPT ![p] = "existing"]
            /\ UNCHANGED <<res, pool>>
    /\ UNCHANGED <<navegador, usuarios, vehiculos, db, citas, req, loc>>

\* SELECT idVehiculo, activo FROM vehiculos WHERE idVehiculo = ?
PostCitaVehiculo(p) ==
    /\ pc[p] = "vehiculo" /\ req[p].kind = "post" /\ db
    /\ LET vehicles == {v \in vehiculos : v.idVehiculo = req[p].idVehiculo}
       IN IF vehicles = {} \/ (\E v \in vehicles : ~v.activo)
          THEN Responder(p, 400, "vehiculo", TRUE)
          ELSE /\ pc' = [pc EXCEPT ![p] = "existing"]
               /\ UNCHANGED <<res, pool>>
    /\ UNCHANGED <<navegador, usuarios, vehiculos, db, citas, req, loc>>

\* Mutant: the vehicle-scoped query is used whether or not a vehicle is named.
existingSiempreFiltrado(idVehiculo, fh) ==
    {i \in 1..Len(citas) : citas[i].idVehiculo = idVehiculo /\ citas[i].fecha_hora = fh}

\* The collision query: scoped to the vehicle when one is named.
existing(idVehiculo, fh) ==
    IF idVehiculo # ""
    THEN {i \in 1..Len(citas) : citas[i].idVehiculo = idVehiculo /\ citas[i].fecha_hora = fh}
    ELSE {i \in 1..Len(citas) : citas[i].fecha_hora = fh}

\* Mutant: the result of the collision query is not looked at.
PostCitaSinColision(p) ==
    /\ pc[p] = "existing" /\ req[p].kind = "post" /\ db
    /\ pc' = [pc EXCEPT ![p] = "insert"]
    /\ UNCHANGED <<navegador, usuarios, vehiculos, db, citas, req, loc, res, pool>>

PostCitaExisting(p) ==
    /\ pc[p] = "existing" /\ req[p].kind = "post" /\ db
    /\ IF existing(req[p].idVehiculo, fechaHoraStr(req[p].fecha, req[p].hora)) # {}
       THEN Responder(p, 409, "ocupado", TRUE)
       ELSE /\ pc' = [pc EXCEPT ![p] = "insert"]
            /\ UNCHANGED <<res, pool>>
    /\ UNCHANGED <<navegador, usuarios, vehiculos, db, citas, req, loc>>

\* Mutant: the date-time is stored converted to UTC (three hours later).
NuevaCitaUTC(r) ==
    [dni |-> r.dni,
     idVehiculo |-> IF r.idVehiculo # "" THEN r.idVehiculo ELSE NULL,
     fecha_hora |-> fechaHoraStr(r.fecha, r.hora + 180),
     motivo |-> r.motivo,
     estado |-> "pendiente",
     admin_dni |-> NULL,
     admin_message |-> NULL]

\* The row INSERT INTO citas (dni, idVehiculo, fecha_hora, motivo) writes;
\* the other columns take the defaults of createCitasTable.
NuevaCita(r) ==
    [dni |-> r.dni,
     idVehiculo |-> IF r.idVehiculo # "" THEN r.idVehiculo ELSE NULL,
     fecha_hora |-> fechaHoraStr(r.fecha, r.hora),
     motivo |-> r.motivo,
     estado |-> "pendiente",
     admin_dni |-> NULL,
     admin_message |-> NULL]

\* Mutant: a unique key on (idVehiculo, fecha_hora) that drops the duplicate row.
InsertCitaUnica(r) ==
    citas' = IF \E i \in 1..Len(citas) :
                    /\ citas[i].idVehiculo = (IF r.idVehiculo # "" THEN r.idVehiculo ELSE NULL)
                    /\ citas[i].fecha_hora = fechaHoraStr(r.fecha, r.hora)
             THEN citas
             ELSE Append(citas, [dni |-> r.dni,
                                 idVehiculo |-> IF r.idVehiculo # "" THEN r.idVehiculo ELSE NULL,
                                 fecha_hora |-> fechaHoraStr(r.fecha, r.hora),
                                 motivo |-> r.motivo, estado |-> "pendiente",
                                 admin_dni |-> NULL, admin_message |-> NULL])

\* The table has no unique key on (idVehiculo, fecha_hora): the insert always succeeds.
InsertCita(r) == citas' = Append(citas, NuevaCita(r))

\* Mutant: the row is inserted with estado 'aceptada' and the requester as
\* acting admin.
PostCitaInsertAceptada(p) ==
    /\ pc[p] = "insert" /\ req[p].kind = "post" /\ db
    /\ Len(citas) < MaxCitas
    /\ citas' = Append(citas, [NuevaCita(req[p]) EXCEPT !.estado = "aceptada",
                                                        !.admin_dni = req[p].dni])
    /\ Responder(p, 201, "Cita agendada", TRUE)
    /\ UNCHANGED <<navegador, usuarios, vehiculos, db, req, loc>>

PostCitaInsert(p) ==
    /\ pc[p] = "insert" /\ req[p].kind = "post" /\ db
    /\ Len(citas) < MaxCitas
    /\ InsertCita(req[p])
    /\ Responder(p, 201, "Cita agendada", TRUE)
    /\ UNCHANGED <<navegador, usuarios, vehiculos, db, req, loc>>

PostCita(p) ==
    \/ PostCitaUsers(p)
    \/ PostCitaVehiculo(p)
    \/ PostCitaExisting(p)
    \/ PostCitaInsert(p)

(***************************************************************************)
(* GET /api/citas/availability                                             *)
(***************************************************************************)
AvailQuery(dates, vehs) == [kind : {"avail"}, date : dates, idVehiculo : vehs]

\* /^[0-9]{4}-[0-9]{2}-[0-9]{2}$/.test(date).  A date is a day number, or -1
\* when the parameter is absent, -2 for a string that has not the form
\* YYYY-MM-DD ('19/01/2024'), -3 for a string of that form that names no
\* calendar day ('2024-13-01', '2024-01-32'): the pattern looks at digits and
\* hyphens only, so it matches the last kind too.
FormatoFecha(date) == date >= 0 \/ date = -3

\* The handler up to `await connectDB()`.
AvailStart(p, q) ==
    /\ Libre(p)
    /\ IF q.date = -1
       THEN Rechazar(p, q, 400, "date")
       ELSE IF ~FormatoFecha(q.date)
       THEN Rechazar(p, q, 400, "formato")
       ELSE /\ connectDB(p, "slot", q, [NoLoc EXCEPT !.i = 1])
            /\ UNCHANGED <<navegador, usuarios, vehiculos, db, citas>>

\* Mutant: the vehicle filter is never added to the query.
cntSinVehiculo(date, t, idVehiculo) ==
    Cardinality({i \in 1..Len(citas) : citas[i].fecha_hora = fechaHoraStr(date, t)})

\* SELECT COUNT(*) as cnt FROM citas WHERE fecha_hora = ? [AND idVehiculo = ?]
cnt(date, t, idVehiculo) ==
    Cardinality({i \in 1..Len(citas) :
                    /\ citas[i].fecha_hora = fechaHoraStr(date, t)
                    /\ (idVehiculo # "" => citas[i].idVehiculo = idVehiculo)})

\* One turn of `for (const t of slots)`; the last turn sends the response.
\* The string of a date that names no calendar day reaches the query as it is:
\* a server that compares it as a string finds no row, a server that refuses
\* the incorrect DATETIME value fails the first query, which the catch block
\* answers with 500.
AvailSlot(p) ==
    /\ pc[p] = "slot" /\ req[p].kind = "avail" /\ db
    /\ \/ LET t == slots[loc[p].i]
              result == Append(res[p].slots,
                               [time |-> t,
                                available |-> (cnt(req[p].date, t, req[p].idVehiculo) = 0)])
          IN IF loc[p].i < Len(slots)
             THEN /\ res' = [res EXCEPT ![p] = [@ EXCEPT !.slots = result]]
                  /\ loc' = [loc EXCEPT ![p] = [@ EXCEPT !.i = @ + 1]]
                  /\ UNCHANGED <<pc, pool>>
             ELSE /\ res' = [res EXCEPT ![p] = [@ EXCEPT !.slots = result, !.status = 200,
                                                         !.success = "true"]]
                  /\ pc' = [pc EXCEPT ![p] = "done"]
                  /\ pool' = pool - 1
                  /\ UNCHANGED loc
       \/ /\ req[p].date = -3 /\ loc[p].i = 1
          /\ Responder(p, 500, "Error del servidor", TRUE)
          /\ UNCHANGED loc
    /\ UNCHANGED <<navegador, usuarios, vehiculos, db, citas, req>>

(***************************************************************************)
(* PATCH /api/citas/:id and PUT /api/citas/:id                             *)
(***************************************************************************)
EstadoBody(kinds, ids, estados, admins, messages) ==
    [kind : kinds, id : ids, estado : estados, adminDni : admins, adminMessage : messages]

\* String.prototype.toLowerCase on the strings requests carry
toLowerCase(s) ==
    CASE s = "ACEPTADA" -> "aceptada"
      [] s = "RECHAZADA" -> "rechazada"
      [] s = "PENDIENTE" -> "pendiente"
      [] s = "CANCELADA" -> "cancelada"
      [] s = "COMPLETADA" -> "completada"
      [] OTHER -> s

\* Mutant: lower case first, then the legacy values.
NormalizarEstadoMinusculasPrimero(estado) ==
    LET e0 == toLowerCase(estado)
        e1 == IF e0 = "cancelada" THEN "rechazada" ELSE e0
    IN IF e1 = "completada" THEN "aceptada" ELSE e1

\* The legacy values first, then lower case.
NormalizarEstado(estado) ==
    LET e1 == IF estado = "cancelada" THEN "rechazada" ELSE estado
        e2 == IF e1 = "completada" THEN "aceptada" ELSE e1
    IN toLowerCase(e2)

\* Mutant: the branch for the other states leaves admin_message as it was.
UpdateCitaConservaMensaje(row, estado, adminDni, adminMessage) ==
    IF estado = "rechazada"
    THEN [row EXCEPT !.estado = estado, !.admin_dni = adminDni,
                     !.admin_message = IF adminMessage # "" THEN adminMessage ELSE NULL]
    ELSE [row EXCEPT !.estado = estado, !.admin_dni = adminDni]

\* UPDATE citas SET estado = ?, admin_dni = ?, admin_message = ... WHERE id = ?
UpdateCita(row, estado, adminDni, adminMessage) ==
    IF estado = "rechazada"
    THEN [row EXCEPT !.estado = estado, !.admin_dni = adminDni,
                     !.admin_message = IF adminMessage # "" THEN adminMessage ELSE NULL]
    ELSE [row EXCEPT !.estado = estado, !.admin_dni = adminDni, !.admin_message = NULL]

\* SELECT c.*, u.nombre ... FROM citas c JOIN usuarios u ON c.dni = u.dni WHERE c.id = ?
citasActualizadas(id) ==
    {i \in 1..Len(citas) : i = id /\ (\E u \in usuarios : u.dni = citas[i].dni)}

\* ---- PATCH ----
PatchCitaStart(p, body) ==
    /\ Libre(p)
    /\ body.kind = "patch"
    /\ IF body.estado = "" \/ body.adminDni = ""
       THEN Rechazar(p, body, 400, "faltan")
       ELSE IF NormalizarEstado(body.estado) \notin {"pendiente", "aceptada", "rechazada"}
       THEN Rechazar(p, body, 400, "estado")
       ELSE /\ connectDB(p, "admin", body,
                         [NoLoc EXCEPT !.estado = NormalizarEstado(body.estado)])
            /\ UNCHANGED <<navegador, usuarios, vehiculos, db, citas>>

\* Mutant: the acting user must exist, its role is not looked at.
PatchCitaAdminSoloExiste(p) ==
    /\ pc[p] = "admin" /\ req[p].kind = "patch" /\ db
    /\ IF {u \in usuarios : u.dni = req[p].adminDni} = {}
       THEN Responder(p, 403, "no encontrado", TRUE)
       ELSE /\ pc' = [pc EXCEPT ![p] = "cita"]
            /\ UNCHANGED <<res, pool>>
    /\ UNCHANGED <<navegador, usuarios, vehiculos, db, citas, req, loc>>

\* SELECT dni, rol FROM usuarios WHERE dni = ?
PatchCitaAdmin(p) ==
    /\ pc[p] = "admin" /\ req[p].kind = "patch" /\ db
    /\ LET users == {u \in usuarios : u.dni = req[p].adminDni}
       IN IF users = {}
          THEN Responder(p, 403, "no encontrado", TRUE)
          ELSE IF \E u \in users : u.rol # "admin"
          THEN Responder(p, 403, "rol", TRUE)
          ELSE /\ pc' = [pc EXCEPT ![p] = "cita"]
               /\ UNCHANGED <<res, pool>>
    /\ UNCHANGED <<navegador, usuarios, vehiculos, db, citas, req, loc>>

\* SELECT id FROM citas WHERE id = ?
PatchCitaExiste(p) ==
    /\ pc[p] = "cita" /\ req[p].kind = "patch" /\ db
    /\ IF req[p].id \notin 1..Len(citas)
       THEN Responder(p, 404, "Cita no encontrada", TRUE)
       ELSE /\ pc' = [pc EXCEPT ![p] = "update"]
            /\ UNCHANGED <<res, pool>>
    /\ UNCHANGED <<navegador, usuarios, vehiculos, db, citas, req, loc>>

\* Mutant: a rejection also takes the appointment off its date-time.
PatchCitaUpdateLibera(p) ==
    /\ pc[p] = "update" /\ req[p].kind = "patch" /\ db
    /\ citas' = [citas EXCEPT ![req[p].id] =
                    [UpdateCita(@, loc[p].estado, req[p].adminDni, req[p].adminMessage)
                        EXCEPT !.fecha_hora = IF loc[p].estado = "rechazada"
                                              THEN <<-1, -1>> ELSE @]]
    /\ loc' = [loc EXCEPT ![p] = [@ EXCEPT !.antes = citas[req[p].id]]]
    /\ pc' = [pc EXCEPT ![p] = "select"]
    /\ UNCHANGED <<navegador, usuarios, vehiculos, db, pool, req, res>>

PatchCitaUpdate(p) ==
    /\ pc[p] = "update" /\ req[p].kind = "patch" /\ db
    /\ citas' = [citas EXCEPT ![req[p].id] =
                    UpdateCita(@, loc[p].estado, req[p].adminDni, req[p].adminMessage)]
    /\ loc' = [loc EXCEPT ![p] = [@ EXCEPT !.antes = citas[req[p].id]]]
    /\ pc' = [pc EXCEPT ![p] = "select"]
    /\ UNCHANGED <<navegador, usuarios, vehiculos, db, pool, req, res>>

PatchCitaSelect(p) ==
    /\ pc[p] = "select" /\ req[p].kind = "patch" /\ db
    /\ IF citasActualizadas(req[p].id) = {}
       THEN Responder(p, 500, "recuperar", TRUE)
       ELSE /\ pc' = [pc EXCEPT ![p] = "done"]
            /\ res' = [res EXCEPT ![p] = [@ EXCEPT !.status = 200, !.message = loc[p].estado,
                                                   !.success = "true",
                                                   !.cita = citas[req[p].id]]]
            /\ pool' = pool - 1
    /\ UNCHANGED <<navegador, usuarios, vehiculos, db, citas, req, loc>>

PatchCita(p) ==
    \/ PatchCitaAdmin(p)
    \/ PatchCitaExiste(p)
    \/ PatchCitaUpdate(p)
    \/ PatchCitaSelect(p)

\* ---- PUT ----
PutCitaStart(p, body) ==
    /\ Libre(p)
    /\ body.kind = "put"
    /\ IF body.estado = "" \/ body.adminDni = ""
       THEN Rechazar(p, body, 400, "faltan")
       ELSE IF NormalizarEstado(body.estado) \notin {"pendiente", "aceptada", "rechazada"}
       THEN Rechazar(p, body, 400, "estado")
       ELSE /\ connectDB(p, "admin", body,
                         [NoLoc EXCEPT !.estado = NormalizarEstado(body.estado)])
            /\ UNCHANGED <<navegador, usuarios, vehiculos, db, citas>>

\* Mutant: the role of the user found is not looked at.
PutCitaAdminSinRol(p) ==
    /\ pc[p] = "admin" /\ req[p].kind = "put" /\ db
    /\ IF {u \in usuarios : u.dni = req[p].adminDni} = {}
       THEN Responder(p, 403, "no encontrado", TRUE)
       ELSE /\ pc' = [pc EXCEPT ![p] = "cita"]
            /\ UNCHANGED <<res, pool>>
    /\ UNCHANGED <<navegador, usuarios, vehiculos, db, citas, req, loc>>

PutCitaAdmin(p) ==
    /\ pc[p] = "admin" /\ req[p].kind = "put" /\ db
    /\ LET users == {u \in usuarios : u.dni = req[p].adminDni}
       IN IF users = {}
          THEN Responder(p, 403, "no encontrado", TRUE)
          ELSE IF \E u \in users : u.rol # "admin"
          THEN Responder(p, 403, "rol", TRUE)
          ELSE /\ pc' = [pc EXCEPT ![p] = "cita"]
               /\ UNCHANGED <<res, pool>>
    /\ UNCHANGED <<navegador, usuarios, vehiculos, db, citas, req, loc>>

\* Mutant: an id without row is answered as an update of no rows.
PutCitaExisteSinFila(p) ==
    /\ pc[p] = "cita" /\ req[p].kind = "put" /\ db
    /\ IF req[p].id \notin 1..Len(citas)
       THEN Responder(p, 200, loc[p].estado, TRUE)
       ELSE /\ pc' = [pc EXCEPT ![p] = "update"]
            /\ UNCHANGED <<res, pool>>
    /\ UNCHANGED <<navegador, usuarios, vehiculos, db, citas, req, loc>>

\* SELECT id FROM citas WHERE id = ?
PutCitaExiste(p) ==
    /\ pc[p] = "cita" /\ req[p].kind = "put" /\ db
    /\ IF req[p].id \notin 1..Len(citas)
       THEN Responder(p, 404, "Cita no encontrada", TRUE)
       ELSE /\ pc' = [pc EXCEPT ![p] = "update"]
            /\ UNCHANGED <<res, pool>>
    /\ UNCHANGED <<navegador, usuarios, vehiculos, db, citas, req, loc>>

\* Mutant: the PUT route does not record the acting admin.
PutCitaUpdateSinAdmin(p) ==
    /\ pc[p] = "update" /\ req[p].kind = "put" /\ db
    /\ citas' = [citas EXCEPT ![req[p].id] =
                    [UpdateCita(@, loc[p].estado, req[p].adminDni, req[p].adminMessage)
                        EXCEPT !.admin_dni = citas[req[p].id].admin_dni]]
    /\ loc' = [loc EXCEPT ![p] = [@ EXCEPT !.antes = citas[req[p].id]]]
    /\ pc' = [pc EXCEPT ![p] = "select"]
    /\ UNCHANGED <<navegador, usuarios, vehiculos, db, pool, req, res>>

PutCitaUpdate(p) ==
    /\ pc[p] = "update" /\ req[p].kind = "put" /\ db
    /\ citas' = [citas EXCEPT ![req[p].id] =
                    UpdateCita(@, loc[p].estado, req[p].adminDni, req[p].adminMessage)]
    /\ loc' = [loc EXCEPT ![p] = [@ EXCEPT !.antes = citas[req[p].id]]]
    /\ pc' = [pc EXCEPT ![p] = "select"]
    /\ UNCHANGED <<navegador, usuarios, vehiculos, db, pool, req, res>>

PutCitaSelect(p) ==
    /\ pc[p] = "select" /\ req[p].kind = "put" /\ db
    /\ IF citasActualizadas(req[p].id) = {}
       THEN Responder(p, 500, "recuperar", TRUE)
       ELSE /\ pc' = [pc EXCEPT ![p] = "done"]
            /\ res' = [res EXCEPT ![p] = [@ EXCEPT !.status = 200, !.message = loc[p].estado,
                                                   !.success = "true",
                                                   !.cita = citas[req[p].id]]]
            /\ pool' = pool - 1
    /\ UNCHANGED <<navegador, usuarios, vehiculos, db, citas, req, loc>>

PutCita(p) ==
    \/ PutCitaAdmin(p)
    \/ PutCitaExiste(p)
    \/ PutCitaUpdate(p)
    \/ PutCitaSelect(p)

(***************************************************************************)
(* POST /api/register                                                      *)
(***************************************************************************)
RegisterBody(dnis, nombres, telefonos, passwords, roles, creators) ==
    [kind : {"register"}, dni : dnis, nombre : nombres, apellido : {"Gomez"},
     telefono : telefonos, password : passwords, rol : roles, creatorDni : creators]

\* The handler up to `await connectDB()`; what follows the connection depends
\* on creatorDni and rol only.
RegisterStart(p, body) ==
    /\ Libre(p)
    /\ body.kind = "register"
    /\ IF body.dni = "" \/ body.nombre = "" \/ body.apellido = "" \/ body.telefono = ""
          \/ body.password = ""
       THEN Rechazar(p, body, 400, "obligatorios")
       ELSE IF Len(body.password) < 6
       THEN Rechazar(p, body, 400, "password")
       ELSE IF body.rol # "" /\ body.rol \notin {"admin", "cliente"}
       THEN Rechazar(p, body, 400, "rol")
       ELSE /\ connectDB(p,
                         IF body.creatorDni # "" THEN "creator"
                         ELSE IF body.rol = "admin" THEN "publico" ELSE "dni",
                         body,
                         [NoLoc EXCEPT !.finalRole = IF body.rol # "" THEN body.rol
                                                                      ELSE "cliente"])
            /\ UNCHANGED <<navegador, usuarios, vehiculos, db, citas>>

\* Mutant: an existing creator is enough, the requested rol is kept.
RegisterCreatorConfiaEnRol(p) ==
    /\ pc[p] = "creator" /\ req[p].kind = "register" /\ db
    /\ IF {u \in usuarios : u.dni = req[p].creatorDni} = {}
       THEN Responder(p, 403, "creador", TRUE)
       ELSE /\ pc' = [pc EXCEPT ![p] = "dni"]
            /\ UNCHANGED <<res, pool>>
    /\ UNCHANGED <<navegador, usuarios, vehiculos, db, citas, req, loc>>

\* SELECT dni, rol FROM usuarios WHERE dni = ? (the creator)
RegisterCreator(p) ==
    /\ pc[p] = "creator" /\ req[p].kind = "register" /\ db
    /\ LET creatorRows == {u \in usuarios : u.dni = req[p].creatorDni}
       IN IF creatorRows = {}
          THEN /\ Responder(p, 403, "creador", TRUE)
               /\ UNCHANGED loc
          ELSE /\ loc' = [loc EXCEPT ![p] = [@ EXCEPT !.finalRole =
                              IF \E u \in creatorRows : u.rol = "admin" THEN "admin"
                                                                         ELSE "cliente"]]
               /\ pc' = [pc EXCEPT ![p] = "dni"]
               /\ UNCHANGED <<res, pool>>
    /\ UNCHANGED <<navegador, usuarios, vehiculos, db, citas, req>>

\* else if (rol === 'admin'): no statement is executed before the answer.
RegisterPublico(p) ==
    /\ pc[p] = "publico" /\ req[p].kind = "register"
    /\ Responder(p, 403, "registro publico", TRUE)
    /\ UNCHANGED <<navegador, usuarios, vehiculos, db, citas, req, loc>>

\* SELECT dni FROM usuarios WHERE dni = ?
RegisterDni(p) ==
    /\ pc[p] = "dni" /\ req[p].kind = "register" /\ db
    /\ IF {u \in usuarios : u.dni = req[p].dni} # {}
       THEN Responder(p, 400, "dni", TRUE)
       ELSE /\ pc' = [pc EXCEPT ![p] = "telefono"]
            /\ UNCHANGED <<res, pool>>
    /\ UNCHANGED <<navegador, usuarios, vehiculos, db, citas, req, loc>>

\* Mutant: the result of the telephone query is not looked at.
RegisterTelefonoSinControl(p) ==
    /\ pc[p] = "telefono" /\ req[p].kind = "register" /\ db
    /\ pc' = [pc EXCEPT ![p] = "insert"]
    /\ UNCHANGED <<navegador, usuarios, vehiculos, db, citas, req, loc, res, pool>>

\* SELECT telefono FROM usuarios WHERE telefono = ?
RegisterTelefono(p) ==
    /\ pc[p] = "telefono" /\ req[p].kind = "register" /\ db
    /\ IF {u \in usuarios : u.telefono = req[p].telefono} # {}
       THEN Responder(p, 400, "telefono", TRUE)
       ELSE /\ pc' = [pc EXCEPT ![p] = "insert"]
            /\ UNCHANGED <<res, pool>>
    /\ UNCHANGED <<navegador, usuarios, vehiculos, db, citas, req, loc>>

\* The row INSERT INTO usuarios (dni, nombre, apellido, telefono, password, rol)
\* writes; activo takes its default.
NuevoUsuario(r, rol) ==
    [dni |-> r.dni, nombre |-> r.nombre, apellido |-> r.apellido, telefono |-> r.telefono,
     password |-> hash(r.password), rol |-> rol, activo |-> TRUE]

\* Mutant: the table has neither its primary key nor unique_telefono.
DuplicateEntrySinClaves(u) == FALSE

\* dni is the PRIMARY KEY and telefono has UNIQUE KEY unique_telefono: an
\* insert that repeats either fails (ER_DUP_ENTRY).
DuplicateEntry(u) == \E v \in usuarios : v.dni = u.dni \/ v.telefono = u.telefono

\* await bcrypt.hash, then the INSERT; a failed insert is caught: 500.
RegisterInsert(p) ==
    /\ pc[p] = "insert" /\ req[p].kind = "register" /\ db
    /\ LET u == NuevoUsuario(req[p], loc[p].finalRole)
       IN IF DuplicateEntry(u)
          THEN /\ Responder(p, 500, "Error del servidor", TRUE)
               /\ UNCHANGED usuarios
          ELSE /\ usuarios' = usuarios \cup {u}
               /\ pc' = [pc EXCEPT ![p] = "done"]
               /\ res' = [res EXCEPT ![p] = [@ EXCEPT !.status = 201,
                                                      !.message = "Usuario registrado",
                                                      !.success = "true",
                                                      !.user = [dni |-> u.dni, role |-> u.rol]]]
               /\ pool' = pool - 1
    /\ UNCHANGED <<navegador, vehiculos, db, citas, req, loc>>

Register(p) ==
    \/ RegisterCreator(p)
    \/ RegisterPublico(p)
    \/ RegisterDni(p)
    \/ RegisterTelefono(p)
    \/ RegisterInsert(p)

(***************************************************************************)
(* POST /api/admins                                                        *)
(***************************************************************************)
AdminsBody(dnis, nombres, telefonos, passwords, creators) ==
    [kind : {"admins"}, dni : dnis, nombre : nombres, apellido : {"Gomez"},
     telefono : telefonos, password : passwords, creatorDni : creators]

AdminsStart(p, body) ==
    /\ Libre(p)
    /\ body.kind = "admins"
    /\ IF body.dni = "" \/ body.nombre = "" \/ body.apellido = "" \/ body.telefono = ""
          \/ body.password = "" \/ body.creatorDni = ""
       THEN Rechazar(p, body, 400, "obligatorios")
       ELSE IF Len(body.password) < 6
       THEN Rechazar(p, body, 400, "password")
       ELSE /\ connectDB(p, "creator", body, NoLoc)
            /\ UNCHANGED <<navegador, usuarios, vehiculos, db, citas>>

\* SELECT dni, rol FROM usuarios WHERE dni = ? (the creator)
AdminsCreator(p) ==
    /\ pc[p] = "creator" /\ req[p].kind = "admins" /\ db
    /\ LET creator == {u \in usuarios : u.dni = req[p].creatorDni}
       IN IF creator = {} \/ (\E u \in creator : u.rol # "admin")
          THEN Responder(p, 403, "solo administradores", TRUE)
          ELSE /\ pc' = [pc EXCEPT ![p] = "dni"]
               /\ UNCHANGED <<res, pool>>
    /\ UNCHANGED <<navegador, usuarios, vehiculos, db, citas, req, loc>>

AdminsDni(p) ==
    /\ pc[p] = "dni" /\ req[p].kind = "admins" /\ db
    /\ IF {u \in usuarios : u.dni = req[p].dni} # {}
       THEN Responder(p, 400, "dni", TRUE)
       ELSE /\ pc' = [pc EXCEPT ![p] = "telefono"]
            /\ UNCHANGED <<res, pool>>
    /\ UNCHANGED <<navegador, usuarios, vehiculos, db, citas, req, loc>>

AdminsTelefono(p) ==
    /\ pc[p] = "telefono" /\ req[p].kind = "admins" /\ db
    /\ IF {u \in usuarios : u.telefono = req[p].telefono} # {}
       THEN Responder(p, 400, "telefono", TRUE)
       ELSE /\ pc' = [pc EXCEPT ![p] = "insert"]
            /\ UNCHANGED <<res, pool>>
    /\ UNCHANGED <<navegador, usuarios, vehiculos, db, citas, req, loc>>

\* await bcrypt.hash, then the INSERT with rol 'admin'.
AdminsInsert(p) ==
    /\ pc[p] = "insert" /\ req[p].kind = "admins" /\ db
    /\ LET u == NuevoUsuario(req[p], "admin")
       IN IF DuplicateEntry(u)
          THEN /\ Responder(p, 500, "Error del servidor", TRUE)
               /\ UNCHANGED usuarios
          ELSE /\ usuarios' = usuarios \cup {u}
               /\ Responder(p, 201, "Administrador creado", TRUE)
    /\ UNCHANGED <<navegador, vehiculos, db, citas, req, loc>>

PostAdmins(p) ==
    \/ AdminsCreator(p)
    \/ AdminsDni(p)
    \/ AdminsTelefono(p)
    \/ AdminsInsert(p)

(***************************************************************************)
(* POST /api/login                                                         *)
(***************************************************************************)
LoginBody(dnis, passwords) == [kind : {"login"}, dni : dnis, password : passwords]

LoginStart(p, body) ==
    /\ Libre(p)
    /\ body.kind = "login"
    /\ IF body.dni = "" \/ body.password = ""
       THEN Rechazar(p, body, 400, "obligatorios")
       ELSE /\ connectDB(p, "users", body, NoLoc)
            /\ UNCHANGED <<navegador, usuarios, vehiculos, db, citas>>

\* SELECT dni, nombre, apellido, telefono, password, rol, activo FROM usuarios
\* WHERE dni = ?; the handler goes on with users[0].
LoginUsers(p) ==
    /\ pc[p] = "users" /\ req[p].kind = "login" /\ db
    /\ LET users == {u \in usuarios : u.dni = req[p].dni}
       IN IF users = {}
          THEN /\ Responder(p, 401, "Credenciales incorrectas", TRUE)
               /\ UNCHANGED loc
          ELSE \E user \in users :
                 IF ~user.activo
                 THEN /\ Responder(p, 401, "Cuenta desactivada", TRUE)
                      /\ UNCHANGED loc
                 ELSE /\ loc' = [loc EXCEPT ![p] = [@ EXCEPT !.user = user]]
                      /\ pc' = [pc EXCEPT ![p] = "compare"]
                      /\ UNCHANGED <<res, pool>>
    /\ UNCHANGED <<navegador, usuarios, vehiculos, db, citas, req>>

\* const { password: _, ...userWithoutPassword } = user
userWithoutPassword(user) == [f \in DOMAIN user \ {"password"} |-> user[f]]

\* Mutant: any non-empty password is taken as valid.
LoginCompareSiempreValida(p) ==
    /\ pc[p] = "compare" /\ req[p].kind = "login"
    /\ pc' = [pc EXCEPT ![p] = "done"]
    /\ res' = [res EXCEPT ![p] = [@ EXCEPT !.status = 200, !.message = "Login exitoso",
                                           !.success = "true",
                                           !.user = userWithoutPassword(loc[p].user)]]
    /\ pool' = pool - 1
    /\ UNCHANGED <<navegador, usuarios, vehiculos, db, citas, req, loc>>

\* await bcrypt.compare(password, user.password) and the answer; no statement
\* is executed in this stretch.
LoginCompare(p) ==
    /\ pc[p] = "compare" /\ req[p].kind = "login"
    /\ IF ~compare(req[p].password, loc[p].user.password)
       THEN Responder(p, 401, "Credenciales incorrectas", TRUE)
       ELSE /\ pc' = [pc EXCEPT ![p] = "done"]
            /\ res' = [res EXCEPT ![p] = [@ EXCEPT !.status = 200, !.message = "Login exitoso",
                                                   !.success = "true",
                                                   !.user = userWithoutPassword(loc[p].user)]]
            /\ pool' = pool - 1
    /\ UNCHANGED <<navegador, usuarios, vehiculos, db, citas, req, loc>>

Login(p) ==
    \/ LoginUsers(p)
    \/ LoginCompare(p)

(***************************************************************************)
(* Failures of the database.                                               *)
(***************************************************************************)
\* The handler of slot p is inside its try block and about to execute a
\* statement on its connection.
Ejecutando(p) == pc[p] \notin {"idle", "done", "rejected", "publico", "compare"}

\* Mutant: the handler has no finally block.
FallaSQLSinFinally(p) ==
    /\ ~db
    /\ Ejecutando(p)
    /\ Responder(p, 500, "Error del servidor", FALSE)
    /\ UNCHANGED <<navegador, usuarios, vehiculos, db, citas, req, loc>>

\* connection.execute(...) throws: catch answers 500 and finally releases.
FallaSQL(p) ==
    /\ ~db
    /\ Ejecutando(p)
    /\ Responder(p, 500, "Error del servidor", TRUE)
    /\ UNCHANGED <<navegador, usuarios, vehiculos, db, citas, req, loc>>

\* The MySQL server stops answering, and answers again.
Caida ==
    /\ db /\ db' = FALSE
    /\ UNCHANGED <<navegador, usuarios, vehiculos, citas, pool, pc, req, loc, res>>

Recuperacion ==
    /\ ~db /\ db' = TRUE
    /\ UNCHANGED <<navegador, usuarios, vehiculos, citas, pool, pc, req, loc, res>>

(***************************************************************************)
(* Specifications.                                                         *)
(***************************************************************************)
Dnis == {"87654321", "00000000"}
Vehs == {"", "veh_1", "veh_2"}
Estados == {"", "aceptada", "rechazada", "pendiente", "otra"}
Admins == {"", "12345678", "87654321", "00000000"}
Mensajes == {"", "sin turno"}

\* Spec: the four appointment handlers, requests handled one at a time (a
\* request arrives once the response to the one before it was sent).
Next ==
    \/ \E body \in PostCitaBody(Dnis, Vehs, Dias, {540, 840}, {"", "consulta"}) :
          PostCitaStart(1, body)
    \/ PostCita(1)
    \/ \E q \in AvailQuery(Dias, Vehs) : AvailStart(1, q)
    \/ AvailSlot(1)
    \/ \E body \in EstadoBody({"patch"}, 1..(MaxCitas + 1), Estados, Admins, Mensajes) :
          PatchCitaStart(1, body)
    \/ PatchCita(1)
    \/ \E body \in EstadoBody({"put"}, 1..(MaxCitas + 1), Estados, Admins, Mensajes) :
          PutCitaStart(1, body)
    \/ PutCita(1)

Spec == Init /\ [][Next]_vars

\* SpecConc: bookings of one date and time, handled concurrently: any slot
\* may take a request and the handlers interleave at every `await`.
NextConc ==
    \E p \in Procs :
        \/ \E body \in PostCitaBody({"87654321"}, {"", "veh_1"}, {19741}, {540}, {"consulta"}) :
              PostCitaStart(p, body)
        \/ PostCita(p)

SpecConc == Init /\ [][NextConc]_vars

\* SpecHorario: one booking request, for every minute of every day of a week.
NextHorario ==
    \/ \E body \in PostCitaBody({"87654321"}, {"", "veh_1"}, DiasSemana, 0..1439, {"consulta"}) :
          pc[1] = "idle" /\ PostCitaStart(1, body)
    \/ PostCita(1)

SpecHorario == Init /\ [][NextHorario]_vars

\* SpecReserva: bookings alone, one at a time, of one Friday and the Saturday
\* after it, by known and unknown users, for active, inactive and unknown
\* vehicles.
NextReserva ==
    \/ \E body \in PostCitaBody({"", "87654321", "00000000"},
                                 {"", "veh_1", "veh_2", "veh_3", "veh_9"},
                                 {19741, 19742}, {-1, 540}, {"", "consulta"}) :
          PostCitaStart(1, body)
    \/ PostCita(1)

SpecReserva == Init /\ [][NextReserva]_vars

\* SpecFranjas: bookings of one Friday at slot times and at permitted times
\* between the slots, and availability queries with well and badly formed
\* dates, one request at a time.
NextFranjas ==
    \/ \E body \in PostCitaBody({"87654321"}, {"", "veh_1"}, {19741},
                                 {540, 570, 780, 1080}, {"consulta"}) :
          PostCitaStart(1, body)
    \/ PostCita(1)
    \/ \E q \in AvailQuery({-1, -2, -3, 19741}, {"", "veh_1"}) : AvailStart(1, q)
    \/ AvailSlot(1)

SpecFranjas == Init /\ [][NextFranjas]_vars

\* SpecEstados: one booking body and status transitions with every kind of
\* estado value (current, legacy, upper case, unknown, missing), one request at
\* a time.
NextEstados ==
    \/ \E body \in PostCitaBody({"87654321"}, {"", "veh_1"}, {19741}, {540}, {"consulta"}) :
          PostCitaStart(1, body)
    \/ PostCita(1)
    \/ \E body \in EstadoBody({"patch"}, 1..MaxCitas,
                               {"", "pendiente", "aceptada", "rechazada", "cancelada",
                                "completada", "ACEPTADA", "RECHAZADA", "PENDIENTE",
                                "CANCELADA", "COMPLETADA", "otra"},
                               {"", "12345678", "87654321"}, Mensajes) :
          PatchCitaStart(1, body)
    \/ PatchCita(1)
    \/ \E body \in EstadoBody({"put"}, 1..MaxCitas,
                               {"", "pendiente", "aceptada", "rechazada", "cancelada",
                                "completada", "ACEPTADA", "RECHAZADA", "PENDIENTE",
                                "CANCELADA", "COMPLETADA", "otra"},
                               {"", "12345678", "87654321"}, Mensajes) :
          PutCitaStart(1, body)
    \/ PutCita(1)

SpecEstados == Init /\ [][NextEstados]_vars

\* SpecCita: the booking form in the browser, the user acting on it while
\* its requests are under way and the responses arriving in any order.
InitCita ==
    /\ usuarios = SeedUsuarios
    /\ vehiculos = SeedVehiculos
    /\ citas = <<>>
    /\ pool = 0
    /\ pc = [p \in Procs |-> "idle"]
    /\ req = [p \in Procs |-> NoReq]
    /\ loc = [p \in Procs |-> NoLoc]
    /\ res = [p \in Procs |-> NoRes]
    /\ db = TRUE
    /\ InitNavegador({-1, 0}, {"", "veh_1"})

NextCita ==
    \/ \E i \in 1..Len(http), r \in RespuestasVehiculos : VehiculosLlega(i, r)
    \/ \E d \in FechasForm : EligeFecha(d)
    \/ \E u \in {UsuarioCliente, UsuarioAdmin} : IniciaSesion(u)
    \/ CierraSesion
    \/ \E d \in FechasForm \cup {-1} : fetchAvailability(d)
    \/ \E i \in 1..Len(http), r \in RespuestasAvailability : AvailabilityLlega(i, r)
    \/ \E t \in {540, 600}, a \in BOOLEAN : selectSlot(t, a)
    \/ submit
    \/ \E i \in 1..Len(http), r \in RespuestasAvailability : RecheckLlega(i, r)
    \/ \E i \in 1..Len(http), r \in RespuestasPost : PostLlega(i, r)

SpecCita == InitCita /\ [][NextCita]_vars

\* SpecCuentas: the three account handlers, requests handled one at a time.
\* The usuarios table holds, besides the seeded rows, an account whose activo
\* flag was cleared in the database (no route of the server changes activo).
Inactivo ==
    [dni |-> "22222222", nombre |-> "Luis", apellido |-> "Diaz", telefono |-> "3412222222",
     password |-> hash("luis1234"), rol |-> "cliente", activo |-> FALSE]

InitCuentas ==
    /\ usuarios = SeedUsuarios \cup {Inactivo}
    /\ vehiculos = SeedVehiculos
    /\ citas = <<>>
    /\ pool = 0
    /\ pc = [p \in Procs |-> "idle"]
    /\ req = [p \in Procs |-> NoReq]
    /\ loc = [p \in Procs |-> NoLoc]
    /\ res = [p \in Procs |-> NoRes]
    /\ db = TRUE
    /\ InitNavegador({0}, {""})

NextCuentas ==
    \/ \E body \in RegisterBody({"", "87654321", "11111111"}, {"Ana"},
                                 {"3417654321", "3410000000"},
                                 {"corta", "secreto1"},
                                 {"", "admin", "cliente", "otro"},
                                 {"", "12345678", "87654321", "00000000"}) :
          RegisterStart(1, body)
    \/ Register(1)
    \/ \E body \in AdminsBody({"87654321", "33333333"}, {"", "Ana"},
                               {"3417654321", "3413333333"},
                               {"corta", "secreto1"},
                               {"", "12345678", "87654321", "11111111"}) :
          AdminsStart(1, body)
    \/ PostAdmins(1)
    \/ \E body \in LoginBody({"", "12345678", "22222222", "11111111"},
                              {"", "admin123", "luis1234", "secreto1"}) :
          LoginStart(1, body)
    \/ Login(1)

SpecCuentas == InitCuentas /\ [][NextCuentas]_vars

\* SpecUsuarios: registrations and admin creations handled concurrently: any
\* slot may take a request and the handlers interleave at every `await`.
NextUsuarios ==
    \E p \in Procs :
        \/ \E body \in RegisterBody({"11111111"}, {"Ana"},
                                     {"3410000000"}, {"secreto1"},
                                     {"", "admin"}, {"", "12345678"}) :
              RegisterStart(p, body)
        \/ Register(p)
        \/ \E body \in AdminsBody({"11111111", "33333333"}, {"Ana"}, {"3413333333"},
                                   {"secreto1"}, {"12345678"}) :
              AdminsStart(p, body)
        \/ PostAdmins(p)

SpecUsuarios == Init /\ [][NextUsuarios]_vars

\* SpecFallas: bookings, status transitions and registrations handled
\* concurrently while the MySQL server may stop answering and answer again at
\* any moment.
NextFallas ==
    \/ Caida
    \/ Recuperacion
    \/ \E p \in Procs :
          \/ FallaSQL(p)
          \/ \E body \in PostCitaBody({"87654321"}, {""}, {19741}, {540, 840},
                                       {"consulta"}) :
                PostCitaStart(p, body)
          \/ PostCitaUsers(p)
          \/ PostCitaExisting(p)
          \/ PostCitaInsert(p)
          \/ \E body \in EstadoBody({"patch"}, {1}, {"aceptada"}, {"12345678"}, {""}) :
                PatchCitaStart(p, body)
          \/ PatchCita(p)
          \/ \E body \in RegisterBody({"11111111"}, {"Ana"}, {"3410000000"},
                                       {"corta", "secreto1"}, {""}, {""}) :
                RegisterStart(p, body)
          \/ RegisterDni(p)
          \/ RegisterTelefono(p)
          \/ RegisterInsert(p)

SpecFallas == Init /\ [][NextFallas]_vars

(***************************************************************************)
(* Properties.                                                             *)
(***************************************************************************)
\* The step in which slot p's handler sends its response.
Termina(p) ==
    /\ pc'[p] = "done"
    /\ (pc[p] # "done" \/ req'[p] # req[p] \/ res'[p] # res[p])

\* A row of the citas table already matches the booking r (the vehicle's rows
\* when r names a vehicle, any row otherwise).
Ocupado(r) ==
    \E i \in 1..Len(citas) :
        /\ citas[i].fecha_hora = <<r.fecha, r.hora>>
        /\ (r.idVehiculo # "" => citas[i].idVehiculo = r.idVehiculo)

EsAdmin(dni) == \E u \in usuarios : u.dni = dni /\ u.rol = "admin"

\* C1: with requests handled one at a time, no two appointment rows of the
\* same vehicle share a date-time, and no two rows without a vehicle do.
C1_UnaCitaPorFranja ==
    \A i, j \in 1..Len(citas) :
        (i # j /\ citas[i].fecha_hora = citas[j].fecha_hora)
            => citas[i].idVehiculo # citas[j].idVehiculo

\* Two rows share a date-time, one without vehicle and one with.
C1_Witness ==
    \E i, j \in 1..Len(citas) :
        /\ i # j
        /\ citas[i].fecha_hora = citas[j].fecha_hora
        /\ citas[i].idVehiculo = NULL
        /\ citas[j].idVehiculo = "veh_1"

\* C2 as stated: every booking for a date-time that already has a matching
\* row is answered 409 and leaves the citas table unchanged.
C2_Original ==
    [][\A p \in Procs :
          (Termina(p) /\ req'[p].kind = "post" /\ Ocupado(req'[p]))
              => (res'[p].status = 409 /\ citas' = citas)]_vars

\* C2 amended: such a booking leaves the citas table unchanged; it is answered
\* 409 when it carries all required fields, its dni is an existing user and its
\* vehicle, when given, exists and is active, and 400 otherwise.
C2_ConflictoSinDuplicado ==
    [][\A p \in Procs :
          (Termina(p) /\ req'[p].kind = "post" /\ Ocupado(req'[p]))
              => /\ citas' = citas
                 /\ LET r == req'[p]
                        valido ==
                            /\ r.dni # "" /\ r.motivo # ""
                            /\ \E u \in usuarios : u.dni = r.dni
                            /\ r.idVehiculo # "" =>
                                  \E v \in vehiculos : v.idVehiculo = r.idVehiculo /\ v.activo
                    IN res'[p].status = (IF valido THEN 409 ELSE 400)]_vars

\* A booking was answered 409 while the table held the row it collided with.
C2_Witness ==
    \E p \in Procs :
        /\ pc[p] = "done" /\ req[p].kind = "post"
        /\ res[p].status = 409 /\ res[p].conn
        /\ Ocupado(req[p])

MismaFranja(a, b) ==
    a.kind = "post" /\ b.kind = "post" /\ a.fecha = b.fecha /\ a.hora = b.hora
        /\ a.idVehiculo = b.idVehiculo

FilasDe(r) ==
    {i \in 1..Len(citas) :
        /\ citas[i].fecha_hora = <<r.fecha, r.hora>>
        /\ citas[i].idVehiculo = (IF r.idVehiculo # "" THEN r.idVehiculo ELSE NULL)}

\* C3: when two bookings of the same slot and vehicle scope have both passed
\* the existence check before either inserts, each insert goes through and is
\* answered 201, and afterwards the table holds two rows for the slot.
C3_DobleReserva ==
    /\ [][\A p, q \in Procs :
            (/\ p # q /\ MismaFranja(req[p], req[q])
             /\ pc[p] = "insert"
             /\ (pc[q] = "insert" \/ (pc[q] = "done" /\ res[q].status = 201))
             /\ pc'[p] = "done")
                => /\ res'[p].status = 201
                   /\ Len(citas') = Len(citas) + 1
                   /\ citas'[Len(citas')].fecha_hora = <<req[p].fecha, req[p].hora>>]_vars
    /\ [](\A p, q \in Procs :
            (/\ p # q /\ MismaFranja(req[p], req[q])
             /\ pc[p] = "done" /\ res[p].status = 201
             /\ pc[q] = "done" /\ res[q].status = 201)
                => Cardinality(FilasDe(req[p])) >= 2)

\* Both requests were answered 201 and the slot is booked twice.
C3_Witness ==
    \E p, q \in Procs :
        /\ p # q /\ MismaFranja(req[p], req[q])
        /\ pc[p] = "done" /\ res[p].status = 201
        /\ pc[q] = "done" /\ res[q].status = 201
        /\ Cardinality(FilasDe(req[p])) = 2

\* C4: for a well-formed date the availability query answers the seven slots
\* 09:00, 10:00, 11:00, 12:00, 15:00, 16:00, 17:00 in that order, a slot being
\* unavailable exactly when a row exists at that date and time (of that vehicle
\* when a vehicle id is given).
C4_SieteFranjas ==
    \A p \in Procs :
        (pc[p] = "done" /\ req[p].kind = "avail" /\ req[p].date >= 0)
            => /\ res[p].status = 200
               /\ [k \in 1..Len(res[p].slots) |-> res[p].slots[k].time]
                     = <<540, 600, 660, 720, 900, 960, 1020>>
               /\ \A k \in 1..Len(res[p].slots) :
                     (~res[p].slots[k].available) <=>
                        \E i \in 1..Len(citas) :
                            /\ citas[i].fecha_hora = <<req[p].date, res[p].slots[k].time>>
                            /\ (req[p].idVehiculo # "" =>
                                    citas[i].idVehiculo = req[p].idVehiculo)

\* A query filtered by vehicle answered all slots available although a row
\* without vehicle exists on that date.
C4_Witness ==
    \E p \in Procs :
        /\ pc[p] = "done" /\ req[p].kind = "avail" /\ req[p].idVehiculo = "veh_1"
        /\ \A k \in 1..Len(res[p].slots) : res[p].slots[k].available
        /\ \E i \in 1..Len(citas) :
              citas[i].fecha_hora[1] = req[p].date /\ citas[i].idVehiculo = NULL

HorasFranja == {540, 600, 660, 720, 900, 960, 1020}

\* C5: a booking without vehicle answered 201 leaves a row for its date and
\* time; no later operation removes a row or changes its vehicle or date-time;
\* and every availability query without vehicle filter reports each slot of its
\* date that has such a row as unavailable.
C5_ReservaOcupaFranja ==
    /\ [][\A p \in Procs :
            (Termina(p) /\ req'[p].kind = "post" /\ res'[p].status = 201)
                => \E i \in 1..Len(citas') :
                      /\ citas'[i].fecha_hora = <<req'[p].fecha, req'[p].hora>>
                      /\ (req'[p].idVehiculo = "" => citas'[i].idVehiculo = NULL)]_vars
    /\ [][/\ Len(citas') >= Len(citas)
          /\ \A i \in 1..Len(citas) :
                /\ citas'[i].fecha_hora = citas[i].fecha_hora
                /\ citas'[i].idVehiculo = citas[i].idVehiculo]_vars
    /\ [](\A p \in Procs :
            (pc[p] = "done" /\ req[p].kind = "avail" /\ req[p].idVehiculo = ""
             /\ res[p].status = 200)
                => \A i \in 1..Len(citas) :
                      (/\ citas[i].idVehiculo = NULL
                       /\ citas[i].fecha_hora[1] = req[p].date
                       /\ citas[i].fecha_hora[2] \in HorasFranja)
                          => \E k \in 1..Len(res[p].slots) :
                                /\ res[p].slots[k].time = citas[i].fecha_hora[2]
                                /\ ~res[p].slots[k].available)

\* A query without filter reported 09:00 unavailable for a booking without
\* vehicle that an administrator has rejected in between.
C5_Witness ==
    \E p \in Procs :
        /\ pc[p] = "done" /\ req[p].kind = "avail" /\ req[p].idVehiculo = ""
        /\ res[p].status = 200 /\ ~res[p].slots[1].available
        /\ \E i \in 1..Len(citas) :
              /\ citas[i].idVehiculo = NULL /\ citas[i].estado = "rechazada"
              /\ citas[i].fecha_hora = <<req[p].date, 540>>

\* The answer of the schedule validation.
RechazoHorario(p) ==
    pc[p] = "done" /\ res[p].status = 400 /\ res[p].message \in {"dia", "horario"}

\* C6: a booking passes the schedule validation exactly when its date is a
\* Monday to Friday and its time lies in 09:00..13:00 or 15:00..18:00, both
\* ends included; every other date-time is answered 400.
C6_HorarioPermitido ==
    \A p \in Procs :
        (req[p].kind = "post" /\ pc[p] # "idle")
            => LET lunesAViernes == (req[p].fecha - 19737) % 7 \in 0..4
                   enHorario == \/ (540 <= req[p].hora /\ req[p].hora <= 780)
                                \/ (900 <= req[p].hora /\ req[p].hora <= 1080)
               IN (~RechazoHorario(p)) <=> (lunesAViernes /\ enHorario)

\* A booking for 13:01 on a Wednesday was answered 400 for its time.
C6_Witness ==
    \E p \in Procs :
        /\ req[p].kind = "post" /\ req[p].hora = 781 /\ getDay(req[p].fecha) = 3
        /\ pc[p] = "done" /\ res[p].status = 400 /\ res[p].message = "horario"

\* C7: a booking rejected for its weekday or its time is answered 400 without
\* a connection being taken from the pool and with the usuarios, vehiculos and
\* citas tables unchanged.
C7_RechazoSinEscritura ==
    [][\A p \in Procs :
          (/\ Termina(p) /\ req'[p].kind = "post"
           /\ req'[p].dni # "" /\ req'[p].motivo # ""
           /\ req'[p].fecha >= 0 /\ req'[p].hora \in 0..1439
           /\ \/ (req'[p].fecha - 19737) % 7 \in {5, 6}
              \/ ~(\/ (540 <= req'[p].hora /\ req'[p].hora <= 780)
                   \/ (900 <= req'[p].hora /\ req'[p].hora <= 1080)))
              => /\ res'[p].status = 400
                 /\ ~res'[p].conn
                 /\ pool' = pool
                 /\ UNCHANGED <<usuarios, vehiculos, db, citas>>]_vars

\* A Saturday booking was answered 400 with appointments in the table and no
\* connection checked out.
C7_Witness ==
    \E p \in Procs :
        /\ pc[p] = "done" /\ req[p].kind = "post" /\ getDay(req[p].fecha) = 6
        /\ res[p].status = 400 /\ res[p].message = "dia" /\ ~res[p].conn
        /\ pool = 0 /\ Len(citas) > 0

Transicion(p) == req[p].kind \in {"patch", "put"}

\* C8: a successful status transition to accepted leaves the appointment's
\* admin message null whatever it was; one to rejected leaves the supplied
\* message, or null when none (or an empty one) was supplied.
C8_MensajeAdmin ==
    \A p \in Procs :
        (Transicion(p) /\ pc[p] = "done" /\ res[p].status = 200)
            => /\ req[p].estado \in {"aceptada", "completada", "ACEPTADA"}
                    => citas[req[p].id].admin_message = NULL
               /\ req[p].estado \in {"rechazada", "cancelada", "RECHAZADA"}
                    => citas[req[p].id].admin_message =
                          (IF req[p].adminMessage # "" THEN req[p].adminMessage ELSE NULL)

\* An appointment that carried a rejection message was accepted.
C8_Witness ==
    \E p \in Procs :
        /\ Transicion(p) /\ pc[p] = "done" /\ res[p].status = 200
        /\ req[p].estado = "aceptada"
        /\ loc[p].antes.admin_message = "sin turno"
        /\ citas[req[p].id].admin_message = NULL

\* C9 as stated: once an appointment is accepted or rejected, no request
\* changes its status.
C9_Terminal ==
    [][\A i \in 1..Len(citas) :
          citas[i].estado \in {"aceptada", "rechazada"}
              => citas'[i].estado = citas[i].estado]_vars

NoEsAdmin(dni) == ~EsAdmin(dni)

\* C10 as stated: every status-transition request whose adminDni is no
\* existing admin is answered 403 and leaves every row unchanged.
C10_Original ==
    [][\A p \in Procs :
          (Termina(p) /\ req'[p].kind \in {"patch", "put"} /\ NoEsAdmin(req'[p].adminDni))
              => (res'[p].status = 403 /\ citas' = citas)]_vars

\* C10 amended: such a request leaves every row unchanged; it is answered 403
\* when it carries an adminDni and an estado that is valid once normalised, and
\* 400 otherwise; and a status only changes in the update of a request whose
\* adminDni is an admin.
C10_SoloAdmin ==
    /\ [][\A p \in Procs :
            (Termina(p) /\ req'[p].kind \in {"patch", "put"}
             /\ NoEsAdmin(req'[p].adminDni))
                => /\ citas' = citas
                   /\ LET r == req'[p]
                          bienFormada ==
                              /\ r.adminDni # ""
                              /\ r.estado \in {"pendiente", "aceptada", "rechazada",
                                               "cancelada", "completada", "PENDIENTE",
                                               "ACEPTADA", "RECHAZADA"}
                      IN res'[p].status = (IF bienFormada THEN 403 ELSE 400)]_vars
    /\ [][\A i \in 1..Len(citas) :
            citas'[i].estado # citas[i].estado
                => \E p \in Procs :
                      /\ req[p].kind \in {"patch", "put"} /\ req[p].id = i
                      /\ pc[p] = "update" /\ pc'[p] = "select"
                      /\ EsAdmin(req[p].adminDni)]_vars

\* A client's request to accept a pending appointment was answered 403.
C10_Witness ==
    \E p \in Procs :
        /\ Transicion(p) /\ pc[p] = "done" /\ res[p].status = 403
        /\ req[p].adminDni = "87654321" /\ req[p].estado = "aceptada"
        /\ req[p].id \in 1..Len(citas)
        /\ citas[req[p].id].estado = "pendiente"

\* The fields of a registration other than its telephone pass every check:
\* all are present, the password has six characters or more, rol is absent or
\* one of the two roles, and the request either names an existing creator or
\* names none and does not ask for the admin role.
RegistroValido(r) ==
    /\ r.dni # "" /\ r.nombre # "" /\ r.apellido # "" /\ r.telefono # ""
    /\ Len(r.password) >= 6
    /\ r.rol \in {"", "admin", "cliente"}
    /\ IF r.creatorDni # "" THEN \E u \in usuarios : u.dni = r.creatorDni
                            ELSE r.rol # "admin"

\* C11: when a user with the telephone of the request exists under another
\* DNI, a registration whose other fields are valid is answered 400 with a
\* duplicate error (of the telephone, or of the DNI when that is taken too)
\* and the usuarios table keeps its rows.
C11_TelefonoDuplicado ==
    [][\A p \in Procs :
          (/\ Termina(p) /\ req'[p].kind = "register" /\ RegistroValido(req'[p])
           /\ \E u \in usuarios : u.telefono = req'[p].telefono /\ u.dni # req'[p].dni)
              => /\ res'[p].status = 400
                 /\ res'[p].success = "false"
                 /\ res'[p].message =
                       (IF \E u \in usuarios : u.dni = req'[p].dni THEN "dni" ELSE "telefono")
                 /\ usuarios' = usuarios]_vars

\* A registration under a new DNI with the seeded client's telephone was
\* answered 400 for the telephone.
C11_Witness ==
    \E p \in Procs :
        /\ pc[p] = "done" /\ req[p].kind = "register" /\ RegistroValido(req[p])
        /\ req[p].dni = "11111111" /\ req[p].telefono = "3417654321"
        /\ res[p].status = 400 /\ res[p].message = "telefono" /\ res[p].conn
        /\ ~\E u \in usuarios : u.dni = "11111111"

\* C12: whatever the interleaving of registrations and admin creations, no
\* two rows of usuarios share a DNI and no two share a telephone.
C12_DniYTelefonoUnicos ==
    \A u, v \in usuarios :
        u # v => (u.dni # v.dni /\ u.telefono # v.telefono)

\* Two requests for the same DNI both passed the two queries; one inserted its
\* row and the insert of the other failed.
C12_Witness ==
    \E p, q \in Procs :
        /\ p # q /\ req[p].kind = "register" /\ req[q].kind \in {"register", "admins"}
        /\ req[p].dni = req[q].dni
        /\ pc[p] = "done" /\ res[p].status = 201
        /\ pc[q] = "done" /\ res[q].status = 500
        /\ Cardinality({u \in usuarios : u.dni = req[p].dni}) = 1

\* Every row a step adds with rol admin is added for a request whose
\* creatorDni is the DNI of a user that has rol admin.
AdminSoloPorAdmin ==
    \A u \in usuarios' \ usuarios :
        u.rol = "admin"
            => \E p \in Procs :
                  /\ req[p].kind \in {"register", "admins"} /\ pc[p] = "insert"
                  /\ pc'[p] = "done" /\ req[p].dni = u.dni
                  /\ req[p].creatorDni # "" /\ EsAdmin(req[p].creatorDni)

\* C13 as stated: an admin row is only created for a request that names an
\* existing admin as creator, and every registration with rol admin and no
\* creatorDni is answered 403 and creates no user.
C13_Original ==
    /\ [][AdminSoloPorAdmin]_vars
    /\ [][\A p \in Procs :
            (/\ Termina(p) /\ req'[p].kind = "register"
             /\ req'[p].rol = "admin" /\ req'[p].creatorDni = "")
                => (res'[p].status = 403 /\ usuarios' = usuarios)]_vars

\* C13 amended: an admin row is only created for a request that names an
\* existing admin as creator; a registration with rol admin and no creatorDni
\* creates no user, and is answered 403 when it carries all required fields and
\* a password of six characters or more, 400 otherwise; the admins of the
\* initial table are the seeded admin alone.
C13_AdminSoloPorAdmin ==
    /\ {u.dni : u \in {v \in SeedUsuarios \cup {Inactivo} : v.rol = "admin"}} = {"12345678"}
    /\ [][AdminSoloPorAdmin]_vars
    /\ [][\A p \in Procs :
            (/\ Termina(p) /\ req'[p].kind = "register"
             /\ req'[p].rol = "admin" /\ req'[p].creatorDni = "")
                => /\ usuarios' = usuarios
                   /\ LET r == req'[p]
                          completa == /\ r.dni # "" /\ r.nombre # "" /\ r.apellido # ""
                                      /\ r.telefono # "" /\ Len(r.password) >= 6
                      IN res'[p].status = (IF completa THEN 403 ELSE 400)]_vars

\* An admin was created for a request whose creator is an admin that was
\* itself registered through the seeded admin.
C13_Witness ==
    \E p \in Procs :
        /\ pc[p] = "done" /\ req[p].kind = "admins" /\ res[p].status = 201
        /\ req[p].creatorDni = "11111111"
        /\ \E u \in usuarios : u.dni = req[p].dni /\ u.rol = "admin"
        /\ \E u \in usuarios : u.dni = "11111111" /\ u.rol = "admin"

\* C14: a login is answered with success exactly when a user with its DNI
\* exists, is active and has the hash of its password stored; the user object
\* of a successful answer carries the row's attributes and no password; every
\* other login is answered 401, or 400 when the DNI or the password is missing;
\* and no step of a login changes a table.
C14_Login ==
    /\ [](\A p \in Procs :
            (pc[p] = "done" /\ req[p].kind = "login")
                => LET r == req[p]
                       filas == {u \in usuarios : /\ u.dni = r.dni /\ u.activo
                                                  /\ u.password = <<"$2a$10$", r.password>>}
                   IN /\ (res[p].status = 200) <=> (filas # {})
                      /\ (res[p].success = "true") <=> (filas # {})
                      /\ filas # {} =>
                            /\ DOMAIN res[p].user = {"dni", "nombre", "apellido", "telefono",
                                                     "rol", "activo"}
                            /\ \E u \in filas :
                                  \A f \in DOMAIN res[p].user : res[p].user[f] = u[f]
                      /\ filas = {} =>
                            res[p].status = (IF r.dni = "" \/ r.password = "" THEN 400
                                                                              ELSE 401))
    /\ [][(\E p \in Procs : req'[p].kind = "login" /\ (pc'[p] # pc[p] \/ req'[p] # req[p]))
            => UNCHANGED <<usuarios, vehiculos, citas>>]_vars

\* An account registered in this run has logged in with its password.
C14_Witness ==
    \E p \in Procs :
        /\ pc[p] = "done" /\ req[p].kind = "login" /\ res[p].status = 200
        /\ req[p].dni = "11111111" /\ req[p].password = "secreto1"
        /\ res[p].user.dni = "11111111"

\* C15: the step that answers a booking with 201 appends exactly one row to
\* the citas table: estado pendiente, admin_dni and admin_message null, and the
\* DNI, the vehicle id (null when none was sent), the date-time and the reason
\* of the request; it changes no other row.
C15_FilaInsertada ==
    [][\A p \in Procs :
          (Termina(p) /\ req'[p].kind = "post" /\ res'[p].status = 201)
              => /\ Len(citas') = Len(citas) + 1
                 /\ \A i \in 1..Len(citas) : citas'[i] = citas[i]
                 /\ LET fila == citas'[Len(citas')]
                        r == req'[p]
                    IN /\ fila.estado = "pendiente"
                       /\ fila.admin_dni = "NULL"
                       /\ fila.admin_message = "NULL"
                       /\ fila.dni = r.dni
                       /\ fila.idVehiculo = (IF r.idVehiculo = "" THEN "NULL" ELSE r.idVehiculo)
                       /\ fila.fecha_hora = <<r.fecha, r.hora>>
                       /\ fila.motivo = r.motivo]_vars

\* A booking of vehicle veh_1 was answered 201 after an earlier appointment
\* had been rejected with a message; its row is the last of the table.
C15_Witness ==
    \E p \in Procs :
        /\ pc[p] = "done" /\ req[p].kind = "post" /\ res[p].status = 201
        /\ req[p].idVehiculo = "veh_1"
        /\ Len(citas) = 2
        /\ citas[1].estado = "rechazada" /\ citas[1].admin_message = "sin turno"
        /\ citas[2].idVehiculo = "veh_1" /\ citas[2].estado = "pendiente"

\* The estado of a request is one the handlers accept once normalised.
EstadoValido(e) ==
    e \in {"pendiente", "aceptada", "rechazada", "cancelada", "completada", "PENDIENTE",
           "ACEPTADA", "RECHAZADA"}

\* C16 as stated: every status-transition request of an admin for an id that
\* has no row is answered 404 and changes no row.
C16_Original ==
    [][\A p \in Procs :
          (/\ Termina(p) /\ req'[p].kind \in {"patch", "put"}
           /\ EsAdmin(req'[p].adminDni) /\ req'[p].id \notin 1..Len(citas))
              => (res'[p].status = 404 /\ citas' = citas)]_vars

\* C16 amended: such a request changes no row; it is answered 404 when its
\* estado is valid once normalised, and 400 otherwise.
C16_CitaInexistente ==
    [][\A p \in Procs :
          (/\ Termina(p) /\ req'[p].kind \in {"patch", "put"}
           /\ EsAdmin(req'[p].adminDni) /\ req'[p].id \notin 1..Len(citas))
              => /\ citas' = citas
                 /\ res'[p].status = (IF EstadoValido(req'[p].estado) THEN 404 ELSE 400)
                 /\ res'[p].success = "false"]_vars

\* The seeded admin's PUT for the id after the last row was answered 404.
C16_Witness ==
    \E p \in Procs :
        /\ pc[p] = "done" /\ req[p].kind = "put" /\ res[p].status = 404 /\ res[p].conn
        /\ req[p].adminDni = "12345678" /\ req[p].estado = "rechazada"
        /\ Len(citas) >= 1 /\ req[p].id = Len(citas) + 1

\* What a status-transition handler makes of estado, written out.
EstadoNormal(e) ==
    CASE e \in {"aceptada", "completada", "ACEPTADA"} -> "aceptada"
      [] e \in {"rechazada", "cancelada", "RECHAZADA"} -> "rechazada"
      [] e \in {"pendiente", "PENDIENTE"} -> "pendiente"
      [] OTHER -> "invalido"

\* Slot p's handler ends with status s and message m, the table untouched.
FinTransicion(p, s, m) ==
    /\ pc'[p] = "done"
    /\ res'[p].status = s /\ res'[p].message = m /\ res'[p].cita = NoCita
    /\ res'[p].success = "false"
    /\ citas' = citas

\* One step of a status-transition handler as a function of the table, the
\* users, the id and the body alone: the route (PATCH or PUT) does not appear.
PasoTransicion(p) ==
    LET r == req'[p]
        e == EstadoNormal(r.estado)
    IN CASE pc[p] \in {"idle", "done", "rejected"} ->
              /\ pool' = pool + (IF pc'[p] = "admin" THEN 1 ELSE 0)
              /\ IF r.estado = "" \/ r.adminDni = "" THEN FinTransicion(p, 400, "faltan")
                 ELSE IF e = "invalido" THEN FinTransicion(p, 400, "estado")
                 ELSE pc'[p] = "admin" /\ res'[p].status = 0 /\ citas' = citas
         [] pc[p] = "admin" ->
              /\ pool' = pool - (IF pc'[p] = "done" THEN 1 ELSE 0)
              /\ IF ~\E u \in usuarios : u.dni = r.adminDni
                 THEN FinTransicion(p, 403, "no encontrado")
                 ELSE IF ~EsAdmin(r.adminDni) THEN FinTransicion(p, 403, "rol")
                 ELSE pc'[p] = "cita" /\ res'[p].status = 0 /\ citas' = citas
         [] pc[p] = "cita" ->
              /\ pool' = pool - (IF pc'[p] = "done" THEN 1 ELSE 0)
              /\ IF r.id \notin 1..Len(citas)
                 THEN FinTransicion(p, 404, "Cita no encontrada")
                 ELSE pc'[p] = "update" /\ res'[p].status = 0 /\ citas' = citas
         [] pc[p] = "update" ->
              /\ pool' = pool
              /\ pc'[p] = "select" /\ res'[p].status = 0
              /\ Len(citas') = Len(citas)
              /\ \A i \in 1..Len(citas) :
                    citas'[i] =
                       IF i # r.id THEN citas[i]
                       ELSE [dni |-> citas[i].dni, idVehiculo |-> citas[i].idVehiculo,
                             fecha_hora |-> citas[i].fecha_hora, motivo |-> citas[i].motivo,
                             estado |-> e, admin_dni |-> r.adminDni,
                             admin_message |-> IF e = "rechazada" /\ r.adminMessage # ""
                                               THEN r.adminMessage ELSE "NULL"]
         [] pc[p] = "select" ->
              /\ pool' = pool - 1
              /\ IF ~\E u \in usuarios : u.dni = citas[r.id].dni
                 THEN FinTransicion(p, 500, "recuperar")
                 ELSE /\ pc'[p] = "done" /\ citas' = citas
                      /\ res'[p].status = 200 /\ res'[p].message = e
                      /\ res'[p].success = "true" /\ res'[p].cita = citas[r.id]
         [] OTHER -> FALSE

\* C17: PATCH /api/citas/:id and PUT /api/citas/:id are equivalent: every
\* step of either handler gives the status, the response body, the table and
\* the pool that the same function of the state, the id and the body gives,
\* whichever the route.
C17_PatchPutEquivalentes ==
    [][\A p \in Procs :
          (/\ req'[p].kind \in {"patch", "put"}
           /\ (pc'[p] # pc[p] \/ req'[p] # req[p] \/ res'[p] # res[p]))
              => /\ PasoTransicion(p)
                 /\ UNCHANGED <<usuarios, vehiculos>>]_vars

\* A PUT has turned an accepted appointment into a rejected one with a
\* message, and the response carries the updated row.
C17_Witness ==
    \E p \in Procs :
        /\ pc[p] = "done" /\ req[p].kind = "put" /\ res[p].status = 200
        /\ loc[p].antes.estado = "aceptada" /\ loc[p].antes.admin_dni = "12345678"
        /\ res[p].cita.estado = "rechazada" /\ res[p].cita.admin_message = "sin turno"
        /\ citas[req[p].id] = res[p].cita

\* Slot p's handler holds a connection: it is past connectDB and has not
\* ended.
EnVuelo(p) == pc[p] \notin {"idle", "done", "rejected"}

\* C18: the connections checked out are exactly those of the handlers in
\* flight: a handler takes one when connectDB succeeds and gives it back in the
\* step in which it ends, however it ends (response, early return inside the
\* try block, caught exception); a request answered by the validation, or whose
\* connectDB failed, takes none; with no request in flight none is checked out.
C18_ConexionLiberada ==
    /\ [](pool = Cardinality({p \in Procs : EnVuelo(p)}))
    /\ []((\A p \in Procs : ~EnVuelo(p)) => pool = 0)
    /\ [](\A p \in Procs : EnVuelo(p) => res[p].conn)
    /\ [][\A p \in Procs :
            LET despues == pc'[p] \notin {"idle", "done", "rejected"}
                paso == pc'[p] # pc[p] \/ req'[p] # req[p] \/ res'[p] # res[p]
            IN /\ (EnVuelo(p) /\ ~despues) => pool' = pool - 1
               /\ (EnVuelo(p) /\ despues /\ paso) => pool' = pool
               /\ (~EnVuelo(p) /\ despues) => (pool' = pool + 1 /\ res'[p].conn)
               /\ (~EnVuelo(p) /\ ~despues /\ paso) => (pool' = pool /\ ~res'[p].conn)]_vars

\* With the server down, one handler ended in its catch block and another
\* request was answered by the validation; no connection is checked out.
C18_Witness ==
    \E p, q \in Procs :
        /\ p # q /\ ~db /\ pool = 0
        /\ pc[p] = "done" /\ res[p].status = 500 /\ res[p].conn
        /\ res[p].message = "Error del servidor"
        /\ pc[q] = "done" /\ res[q].status = 400 /\ ~res[q].conn

\* Slot p's handler takes a step in which a database operation fails: with
\* the server down, it calls connectDB (its validation has passed) or executes
\* a statement.
FallaDB(p) ==
    /\ ~db
    /\ pc'[p] # pc[p] \/ req'[p] # req[p] \/ res'[p] # res[p]
    /\ IF pc[p] \in {"idle", "done", "rejected"}
       THEN ~(pc'[p] = "done" /\ res'[p].status = 400)
       ELSE pc[p] \notin {"publico", "compare"}

\* C19 as stated: whenever obtaining the connection or executing a statement
\* fails, the request ends with a 500 response that carries success: false and
\* the generic message.
C19_Error500 ==
    [][\A p \in Procs :
          FallaDB(p) => /\ pc'[p] = "done"
                        /\ res'[p].status = 500
                        /\ res'[p].success = "false"
                        /\ res'[p].message = "Error del servidor"]_vars

\* C20 as stated: a registration that carries all required fields and a
\* password of six characters or more never ends without a response, and its
\* response is 201, 400, 403 or 500 with a boolean success field.
C20_RegistroResponde ==
    \A p \in Procs :
        (/\ req[p].kind = "register" /\ pc[p] \in {"done", "rejected"}
         /\ req[p].dni # "" /\ req[p].nombre # "" /\ req[p].apellido # ""
         /\ req[p].telefono # "" /\ Len(req[p].password) >= 6)
            => /\ pc[p] = "done"
               /\ res[p].status \in {201, 400, 403, 500}
               /\ res[p].success \in {"true", "false"}

\* C21: a booking that lacks dni, fecha, hora or motivo is answered 400 by the
\* first check, before a connection is taken; a complete booking for a valid
\* weekday date-time whose dni is no user, or whose vehicle does not exist or is
\* inactive, is answered with the error 400; neither inserts a row.
C21_UsuarioYVehiculo ==
    [][\A p \in Procs :
          (Termina(p) /\ req'[p].kind = "post")
              => LET r == req'[p]
                     faltan == r.dni = "" \/ r.fecha = -1 \/ r.hora = -1 \/ r.motivo = ""
                     enHorario == /\ (r.fecha - 19737) % 7 \in 0..4
                                  /\ \/ (540 <= r.hora /\ r.hora <= 780)
                                     \/ (900 <= r.hora /\ r.hora <= 1080)
                     sinUsuario == ~\E u \in usuarios : u.dni = r.dni
                     sinVehiculo == /\ r.idVehiculo # ""
                                    /\ ~\E v \in vehiculos :
                                          v.idVehiculo = r.idVehiculo /\ v.activo
                 IN /\ faltan => /\ res'[p].status = 400 /\ res'[p].message = "campos"
                                  /\ ~res'[p].conn /\ pool' = pool
                                  /\ citas' = citas
                    /\ (~faltan /\ enHorario /\ (sinUsuario \/ sinVehiculo))
                          => /\ res'[p].status = 400 /\ res'[p].success = "false"
                             /\ res'[p].message = (IF sinUsuario THEN "usuario"
                                                                 ELSE "vehiculo")
                             /\ citas' = citas]_vars

\* A booking for an unknown vehicle at a free slot was refused while the table
\* already held an appointment of vehicle veh_3.
C21_Witness ==
    \E p \in Procs :
        /\ pc[p] = "done" /\ req[p].kind = "post" /\ req[p].idVehiculo = "veh_9"
        /\ res[p].status = 400 /\ res[p].message = "vehiculo" /\ res[p].conn
        /\ \E i \in 1..Len(citas) : citas[i].idVehiculo = "veh_3"

\* C22: an availability query whose date is missing, has not the form
\* YYYY-MM-DD, or has that form but names no calendar day, is answered 400
\* and carries no slot list.
C22_FechaMalFormada ==
    [][\A p \in Procs :
          (Termina(p) /\ req'[p].kind = "avail" /\ req'[p].date < 0)
              => (res'[p].status = 400 /\ res'[p].slots = << >>)]_vars

\* A row that an administrator has accepted or rejected matches the booking r.
OcupadoResuelta(r) ==
    \E i \in 1..Len(citas) :
        /\ citas[i].estado \in {"aceptada", "rechazada"}
        /\ citas[i].fecha_hora = <<r.fecha, r.hora>>
        /\ (r.idVehiculo # "" => citas[i].idVehiculo = r.idVehiculo)

\* C23 as stated, for the booking: every booking that matches an accepted or
\* rejected row is answered 409.
C23_Original ==
    [][\A p \in Procs :
          (Termina(p) /\ req'[p].kind = "post" /\ OcupadoResuelta(req'[p]))
              => res'[p].status = 409]_vars

\* C23 amended: a status transition frees no slot.  Every step that changes a row's
\* status leaves the number of rows and each row's dni, vehicle, date-time and
\* reason as they were; an availability query reports unavailable every slot
\* that has an accepted or rejected row within its vehicle filter; and a
\* booking that matches an accepted or rejected row inserts nothing and gets
\* the answer the row gave it before the transition: 409 from the collision
\* check when it reaches that check, the 400 of an earlier check otherwise.
C23_TransicionNoLibera ==
    /\ [][(\E i \in 1..Len(citas) : i <= Len(citas') /\ citas'[i].estado # citas[i].estado)
            => /\ Len(citas') = Len(citas)
               /\ \A i \in 1..Len(citas) :
                     /\ citas'[i].dni = citas[i].dni
                     /\ citas'[i].idVehiculo = citas[i].idVehiculo
                     /\ citas'[i].fecha_hora = citas[i].fecha_hora
                     /\ citas'[i].motivo = citas[i].motivo]_vars
    /\ [](\A p \in Procs :
            (pc[p] = "done" /\ req[p].kind = "avail" /\ res[p].status = 200)
                => \A i \in 1..Len(citas) :
                      (/\ citas[i].estado \in {"aceptada", "rechazada"}
                       /\ citas[i].fecha_hora[1] = req[p].date
                       /\ citas[i].fecha_hora[2] \in HorasFranja
                       /\ (req[p].idVehiculo # ""
                              => citas[i].idVehiculo = req[p].idVehiculo))
                          => \E k \in 1..Len(res[p].slots) :
                                /\ res[p].slots[k].time = citas[i].fecha_hora[2]
                                /\ ~res[p].slots[k].available)
    /\ [][\A p \in Procs :
            (Termina(p) /\ req'[p].kind = "post" /\ OcupadoResuelta(req'[p]))
                => /\ citas' = citas
                   /\ res'[p].status = (IF pc[p] = "existing" THEN 409 ELSE 400)
                   /\ pc[p] = "existing"
                        <=> /\ req'[p].dni # "" /\ req'[p].motivo # ""
                            /\ \E u \in usuarios : u.dni = req'[p].dni
                            /\ req'[p].idVehiculo # ""
                                  => \E v \in vehiculos :
                                        v.idVehiculo = req'[p].idVehiculo /\ v.activo]_vars

\* A booking for vehicle veh_1 was answered 409 at a slot whose only row, for
\* that vehicle, had been rejected.
C23_Witness ==
    \E p \in Procs :
        /\ pc[p] = "done" /\ req[p].kind = "post" /\ res[p].status = 409
        /\ req[p].idVehiculo = "veh_1"
        /\ Len(citas) = 1 /\ citas[1].estado = "rechazada"
        /\ citas[1].fecha_hora = <<req[p].fecha, req[p].hora>>

\* The rows of the table at the date-time of the booking r.
FilasEn(r) == {i \in 1..Len(citas) : citas[i].fecha_hora = <<r.fecha, r.hora>>}

\* The booking r names an active vehicle.
VehiculoActivo(r) == \E v \in vehiculos : v.idVehiculo = r.idVehiculo /\ v.activo

\* The booking r carries its four fields and the dni of an existing user.
ReservaCompleta(r) ==
    /\ r.dni # "" /\ r.fecha # -1 /\ r.hora # -1 /\ r.motivo # ""
    /\ \E u \in usuarios : u.dni = r.dni

\* C24 as stated: every booking without vehicle at a date-time that has a row
\* is answered 409, and every booking that names an active vehicle at a
\* date-time whose rows are without vehicle or of other vehicles is answered
\* 201.
C24_Original ==
    [][\A p \in Procs :
          (Termina(p) /\ req'[p].kind = "post" /\ FilasEn(req'[p]) # {})
              => LET r == req'[p]
                 IN /\ r.idVehiculo = "" => res'[p].status = 409
                    /\ (/\ VehiculoActivo(r)
                        /\ \A i \in FilasEn(r) : citas[i].idVehiculo # r.idVehiculo)
                          => res'[p].status = 201]_vars

\* C24 amended: of the bookings that carry their four fields and the dni of an
\* existing user, one without vehicle is answered 409 and inserts nothing as
\* soon as any row, with or without vehicle, holds its date-time; one that
\* names an active vehicle, at a date-time whose rows are without vehicle or
\* of other vehicles, is answered 201 and its row is added beside them.
C24_OrdenYVehiculo ==
    [][\A p \in Procs :
          (/\ Termina(p) /\ req'[p].kind = "post" /\ FilasEn(req'[p]) # {}
           /\ ReservaCompleta(req'[p]))
              => LET r == req'[p]
                 IN /\ r.idVehiculo = ""
                          => (res'[p].status = 409 /\ citas' = citas)
                    /\ (/\ VehiculoActivo(r)
                        /\ \A i \in FilasEn(r) : citas[i].idVehiculo # r.idVehiculo)
                          => /\ res'[p].status = 201
                             /\ Len(citas') = Len(citas) + 1
                             /\ \A i \in 1..Len(citas) : citas'[i] = citas[i]
                             /\ citas'[Len(citas')].idVehiculo = r.idVehiculo
                             /\ citas'[Len(citas')].fecha_hora = <<r.fecha, r.hora>>]_vars

\* A booking for veh_1 was answered 201 at a date-time that already had a
\* row without vehicle: the two rows stand side by side.
C24_Witness ==
    \E p \in Procs :
        /\ pc[p] = "done" /\ req[p].kind = "post" /\ res[p].status = 201
        /\ req[p].idVehiculo = "veh_1"
        /\ Len(citas) = 2
        /\ citas[1].idVehiculo = NULL /\ citas[2].idVehiculo = "veh_1"
        /\ citas[1].fecha_hora = citas[2].fecha_hora

\* The rows that make slot t of date d unavailable under the vehicle filter v,
\* in the table c.
FilasFranja(c, d, t, v) ==
    {i \in 1..Len(c) : /\ c[i].fecha_hora = <<d, t>>
                       /\ (v # "" => c[i].idVehiculo = v)}

\* C25: the availability of a date is decided by the rows whose time is one of
\* the seven slot times and by nothing else: each slot of an answered query is
\* available exactly when no row within the filter has that date and time, and
\* a booking answered 201 at a permitted time that is no slot time (09:30,
\* 13:00, 18:00) leaves the rows of every slot, under every filter, as they
\* were.
C25_SoloFranjas ==
    /\ [](\A p \in Procs :
            (pc[p] = "done" /\ req[p].kind = "avail" /\ res[p].status = 200)
                => /\ Len(res[p].slots) = 7
                   /\ \A k \in 1..7 :
                         /\ res[p].slots[k].time = slots[k]
                         /\ res[p].slots[k].available
                               <=> (FilasFranja(citas, req[p].date, slots[k],
                                                req[p].idVehiculo) = {}))
    /\ [][\A p \in Procs :
            (/\ Termina(p) /\ req'[p].kind = "post" /\ res'[p].status = 201
             /\ req'[p].hora \notin HorasFranja)
                => /\ citas' # citas
                   /\ \A d \in {req'[p].fecha}, t \in HorasFranja,
                         v \in {"", "veh_1", "veh_2", "veh_3"} :
                         FilasFranja(citas', d, t, v) = FilasFranja(citas, d, t, v)]_vars

\* A query answered with all seven slots available for a date that has a
\* booking at 09:30 and one at 18:00.
C25_Witness ==
    \E p \in Procs :
        /\ pc[p] = "done" /\ req[p].kind = "avail" /\ res[p].status = 200
        /\ req[p].idVehiculo = ""
        /\ \A k \in 1..7 : res[p].slots[k].available
        /\ \E i, j \in 1..Len(citas) :
              /\ citas[i].fecha_hora = <<req[p].date, 570>>
              /\ citas[j].fecha_hora = <<req[p].date, 1080>>

C27_AdminYMensaje ==
    \A i \in 1..Len(citas) :
        /\ citas[i].estado \in {"aceptada", "rechazada"}
              => /\ citas[i].admin_dni # NULL
                 /\ \E u \in usuarios : u.dni = citas[i].admin_dni /\ u.rol = "admin"
        /\ citas[i].admin_message # NULL => citas[i].estado = "rechazada"

\* A PUT answered 200 left an accepted appointment next to a rejected one that
\* carries its message.
C27_Witness ==
    /\ Len(citas) = 2
    /\ citas[1].estado = "aceptada" /\ citas[1].admin_dni = "12345678"
    /\ citas[2].estado = "rechazada" /\ citas[2].admin_message = "sin turno"
    /\ \E p \in Procs :
          /\ pc[p] = "done" /\ req[p].kind = "put" /\ req[p].id = 1
          /\ res[p].status = 200 /\ res[p].cita.estado = "aceptada"

\* The registration r passes the checks made before the connection is taken.
RegistroCompleto(r) ==
    /\ r.dni # "" /\ r.nombre # "" /\ r.apellido # "" /\ r.telefono # ""
    /\ Len(r.password) >= 6
    /\ r.rol \in {"", "admin", "cliente"}

\* C28 as stated: a registration with a creatorDni is answered 201 when the
\* creator exists, with the role admin for an admin creator and cliente for
\* any other, whatever its rol; and it is answered 403 and creates no user when
\* the creator does not exist.
C28_Original ==
    [][\A p \in Procs :
          (Termina(p) /\ req'[p].kind = "register" /\ req'[p].creatorDni # "")
              => LET r == req'[p]
                 IN IF \E u \in usuarios : u.dni = r.creatorDni
                    THEN /\ res'[p].status = 201
                         /\ \E u \in usuarios' \ usuarios :
                               /\ u.dni = r.dni
                               /\ u.rol = (IF EsAdmin(r.creatorDni) THEN "admin"
                                                                    ELSE "cliente")
                    ELSE res'[p].status = 403 /\ usuarios' = usuarios]_vars

\* C28 amended: a registration with a creatorDni that passes the first checks
\* (fields present, password of six characters or more, rol absent, admin or
\* cliente) is answered 403 and creates no user when the creator does not
\* exist; 400, creating no user, when the creator exists and the DNI or the
\* telephone is taken; and otherwise 201, the row stored and the role answered
\* being admin for an admin creator and cliente for any other creator,
\* whatever the rol.  One that fails the first checks is answered 400.
C28_RolDelCreador ==
    [][\A p \in Procs :
          (Termina(p) /\ req'[p].kind = "register" /\ req'[p].creatorDni # "")
              => LET r == req'[p]
                     rol == IF EsAdmin(r.creatorDni) THEN "admin" ELSE "cliente"
                 IN IF ~RegistroCompleto(r)
                    THEN res'[p].status = 400 /\ usuarios' = usuarios
                    ELSE IF ~\E u \in usuarios : u.dni = r.creatorDni
                    THEN res'[p].status = 403 /\ usuarios' = usuarios
                    ELSE IF \E u \in usuarios : u.dni = r.dni \/ u.telefono = r.telefono
                    THEN res'[p].status = 400 /\ usuarios' = usuarios
                    ELSE /\ res'[p].status = 201
                         /\ res'[p].user = [dni |-> r.dni, role |-> rol]
                         /\ usuarios' = usuarios \cup {NuevoUsuario(r, rol)}]_vars

\* A registration with rol 'admin' whose creator is the seeded client was
\* answered 201 and stored with the role cliente.
C28_Witness ==
    \E p \in Procs :
        /\ pc[p] = "done" /\ req[p].kind = "register" /\ res[p].status = 201
        /\ req[p].rol = "admin" /\ req[p].creatorDni = "87654321"
        /\ res[p].user.role = "cliente"
        /\ \E u \in usuarios : u.dni = req[p].dni /\ u.rol = "cliente"

\* The form of CitaComponent: fecha, selectedSlot, hora and slots.
Formulario(c) == <<c.fecha, c.selectedSlot, c.hora, c.slots>>

\* Request i is answered in this step.
Llega(i) == http[i].estado = "enviada" /\ http'[i].estado = "entregada"

Mostrada(date, lista) == IF DiaLocal(date) = Hoy THEN Futuros(lista) ELSE lista

\* The response now arriving is the last of two fetchAvailability requests
\* that were under way at once, and answers the one issued first.
LlegaAdelantada(i) ==
    /\ Llega(i)
    /\ \E j \in (i + 1)..Len(http) : http[j].kind = "availability"
    /\ \A j \in 1..Len(http) : j # i /\ http[j].kind = "availability"
                                   => http[j].estado = "entregada"

\* C30 as stated: when the response to the fetchAvailability request issued
\* first arrives after the response to the one issued later, the list shown
\* from then on is the list of the response that arrived last.
C30_Original ==
    [][\A i \in Enviadas("availability") :
          LlegaAdelantada(i)
              => component'.slots = Mostrada(http[i].date, http'[i].res.slots)]_vars

\* C30: every successful response to a fetchAvailability request replaces the
\* list shown by its own list (less the slots already past when its date is
\* today), whether requests issued before or after it are still under way or
\* already answered, and leaves selectedSlot null or the time of a slot that
\* list marks available; a response that is an error leaves the list shown and
\* selectedSlot as they were.
C30_UltimaRespuestaConExito ==
    [][\A i \in Enviadas("availability") :
          Llega(i)
              => IF http'[i].res.status = 200
                 THEN /\ component'.slots = Mostrada(http[i].date, http'[i].res.slots)
                      /\ \/ component'.selectedSlot = -1
                         \/ Disponible(component'.slots, component'.selectedSlot)
                 ELSE /\ component'.slots = component.slots
                      /\ component'.selectedSlot = component.selectedSlot]_vars

\* Two fetchAvailability requests were under way at once; the response to the
\* one issued first arrived last, with a list that differs from the list of
\* the other response, and it is the list shown.
C30_Witness ==
    \E i, j \in 1..Len(http) :
        /\ i < j
        /\ http[i].kind = "availability" /\ http[j].kind = "availability"
        /\ http[i].estado = "entregada" /\ http[j].estado = "entregada"
        /\ http[i].res.status = 200
        /\ ~Disponible(http[i].res.slots, 600)
        /\ component.slots = Mostrada(http[i].date, http[i].res.slots)
        /\ component.slots # << >>

====
